---- MODULE Spec2Model ----
(***************************************************************************)
(* rosari-org: the RosaryEngine state machine, the AudioManager (TTS       *)
(* fetch / cache / fallback and playback) and the playback loop of app.ts. *)
(*                                                                         *)
(* Source layout (files hold several concatenated modules):                *)
(*   src/src/scripts/voice-recognition.ts 196-352   rosary-engine.ts        *)
(*   src/src/scripts/rosary-data.ts       1-232     rosary-data.ts          *)
(*   src/src/scripts/rosary-data.ts       591-912   audio-manager.ts        *)
(*   src/src/scripts/storage-manager.ts             storage-manager.ts      *)
(*   src/unnamed/part_000                 746-1202  app.ts                  *)
(***************************************************************************)
EXTENDS Integers, Sequences, FiniteSets, TLC

(***************************************************************************)
(* Bounds of the model (not program constants).                            *)
(***************************************************************************)
\* largest word index passed to setWordIndex by the engine driver
MaxWordIndex == 1
\* longest listener list explored by the engine driver
MaxListeners == 1
\* saturation of the counters of consecutive nextStep() calls at the end
MaxTailCalls == 3
\* concurrent asynchronous calls (playNextStep chains, downloads) explored
MaxChains == 2
\* words of a prayer text that are kept
MaxWords == 2
\* steps of the rosary sequence played by the playback loop
PlaySteps == 2
\* most failing responses the proxy gives before it recovers
MaxFails == 5
\* inputs to the playback controls (button clicks, voice commands, a
\* language chosen at the prompt) on one visit
MaxInputs == 4

(***************************************************************************)
(* Program constants.                                                      *)
(***************************************************************************)
\* for (let d = 0; d < 5; d++)
NumDecades == 5
\* for (let h = 0; h < 10; h++)
HailMarysPerDecade == 10
\* beadIndex: 6 + d * 11
LoopBeadBase == 6
BeadsPerDecade == 11
\* if (attempt < 3)
MaxAttempts == 3
\* sequence.slice(0, 10)
DownloadSteps == 10
\* if (buf.byteLength < 500) in fetchXAIAudio
MinBodyBytes == 500
\* const totalLoopBeads = 55
totalLoopBeads == 55

MysteryTypes == {"joyful", "sorrowful", "glorious", "luminous"}
EngineStates == {"idle", "playing", "paused", "finished"}
Languages == {"English", "Latin"}
\* the languages answered at the language prompt during playback
SpokenLanguages == {"English"}
DefaultVoice == "elderly rural Piedmontese farmer"
\* listeners used by the engine driver
Callbacks == {"cbA", "cbB"}

Min(a, b) == IF a < b THEN a ELSE b

(***************************************************************************)
(* rosary-data.ts: buildRosarySequence.  A RosaryStep is a record; an      *)
(* optional field that the code leaves undefined is absent from the record.*)
(***************************************************************************)
RECURSIVE HailMarys(_, _)
HailMarys(d, h) ==
  IF h >= HailMarysPerDecade THEN <<>>
  ELSE << [prayer |-> "hailMary", decadeIndex |-> d, hailMaryIndex |-> h,
           beadIndex |-> (LoopBeadBase + 1) + d * BeadsPerDecade + h] >>
       \o HailMarys(d, h + 1)

\* a decade without its Fatima prayer
DecadeSteps_noFatima(d) ==
  << [prayer |-> "mysteryAnnounce", decadeIndex |-> d, mysteryIndex |-> d],
     [prayer |-> "ourFather", decadeIndex |-> d,
      beadIndex |-> LoopBeadBase + d * BeadsPerDecade] >>
  \o HailMarys(d, 0)
  \o << [prayer |-> "gloryBe", decadeIndex |-> d,
         beadIndex |-> LoopBeadBase + d * BeadsPerDecade + 10] >>

\* a decade whose Our Father sits on the bead of its first Hail Mary
DecadeSteps_ourFatherOff(d) ==
  << [prayer |-> "mysteryAnnounce", decadeIndex |-> d, mysteryIndex |-> d],
     [prayer |-> "ourFather", decadeIndex |-> d,
      beadIndex |-> LoopBeadBase + d * BeadsPerDecade + 1] >>
  \o HailMarys(d, 0)
  \o << [prayer |-> "gloryBe", decadeIndex |-> d,
         beadIndex |-> LoopBeadBase + d * BeadsPerDecade + 10],
        [prayer |-> "fatimaPrayer", decadeIndex |-> d,
         beadIndex |-> LoopBeadBase + d * BeadsPerDecade + 10] >>

DecadeSteps(d) ==
  << [prayer |-> "mysteryAnnounce", decadeIndex |-> d, mysteryIndex |-> d],
     [prayer |-> "ourFather", decadeIndex |-> d,
      beadIndex |-> LoopBeadBase + d * BeadsPerDecade] >>
  \o HailMarys(d, 0)
  \o << [prayer |-> "gloryBe", decadeIndex |-> d,
         beadIndex |-> LoopBeadBase + d * BeadsPerDecade + 10],
        [prayer |-> "fatimaPrayer", decadeIndex |-> d,
         beadIndex |-> LoopBeadBase + d * BeadsPerDecade + 10] >>

RECURSIVE Decades(_)
Decades(d) == IF d >= NumDecades THEN <<>> ELSE DecadeSteps(d) \o Decades(d + 1)

buildRosarySequence(mysteryType) ==
  << [prayer |-> "signOfCross", beadIndex |-> -1],
     [prayer |-> "apostlesCreed", beadIndex |-> 0],
     [prayer |-> "ourFather", beadIndex |-> 1],
     [prayer |-> "hailMary", hailMaryIndex |-> 0, beadIndex |-> 2],
     [prayer |-> "hailMary", hailMaryIndex |-> 1, beadIndex |-> 3],
     [prayer |-> "hailMary", hailMaryIndex |-> 2, beadIndex |-> 4],
     [prayer |-> "gloryBe", beadIndex |-> 5] >>
  \o Decades(0)
  \o << [prayer |-> "hailHolyQueen", beadIndex |-> -1],
        [prayer |-> "closingPrayer", beadIndex |-> -1],
        [prayer |-> "signOfCross", beadIndex |-> -1],
        [prayer |-> "goInPeace", beadIndex |-> -1] >>

(***************************************************************************)
(* rosary-data.ts: getBeadPositions.  Of each position the type and size   *)
(* are kept; the x and y coordinates are drawing data and are left out.    *)
(* Position b of the code's array is getBeadPositions[b + 1].              *)
(***************************************************************************)
decadeStarts == {0, 11, 22, 33, 44}

TailPositions ==
  << [type |-> "crucifix", size |-> 14],
     [type |-> "of", size |-> 11],
     [type |-> "hm", size |-> 9],
     [type |-> "hm", size |-> 9],
     [type |-> "hm", size |-> 9],
     [type |-> "connector", size |-> 10] >>

\* every loop bead drawn as a Hail-Mary bead
getBeadPositions_allHm ==
  TailPositions \o [ k \in 1..totalLoopBeads |-> [type |-> "hm", size |-> 9] ]

getBeadPositions ==
  TailPositions
  \o [ k \in 1..totalLoopBeads |->
         LET isOf == (k - 1) \in decadeStarts
         IN  [type |-> IF isOf THEN "of" ELSE "hm",
              size |-> IF isOf THEN 11 ELSE 9] ]

\* step.f ?? d
Field(step, f, d) == IF f \in DOMAIN step THEN step[f] ELSE d

(***************************************************************************)
(* rosary-engine.ts: class RosaryEngine.  The engine is a record of its    *)
(* private fields; currentStepIndex is 0-based as in the code, so the      *)
(* current step is sequence[currentStepIndex + 1].  Each method is an      *)
(* operator from the engine to [engine, ret, emit]: the engine after the   *)
(* call, the value returned, and whether the call ran this.emit().         *)
(***************************************************************************)
NewEngine(mysteryType) ==
  [ mysteryType      |-> mysteryType,
    sequence         |-> buildRosarySequence(mysteryType),
    currentStepIndex |-> 0,
    engineState      |-> "idle",
    language         |-> "English",
    voiceDescription |-> DefaultVoice,
    wordIndex        |-> 0,
    listeners        |-> <<>> ]

LastIndex(e) == Len(e.sequence) - 1

\* MYSTERY_SETS[type].mysteries[i]: its name and meditation, as the strings
\* they stand for
MysteryName(mysteryType, i) == << "mysteries.name", mysteryType, i >>
MysteryMeditation(mysteryType, i) == << "mysteries.meditation", mysteryType, i >>

\* getState that counts the listeners into the snapshot
getState_seesListeners(e) ==
  [ engineState |-> e.engineState,
    currentStepIndex |-> e.currentStepIndex,
    totalSteps |-> Len(e.sequence) + Len(e.listeners) ]

\* getState(): the snapshot handed to the listeners.  this.sequence[i] ??
\* this.sequence[0] is the step; the index is always within the sequence.
getState(e) ==
  LET step == IF e.currentStepIndex + 1 \in DOMAIN e.sequence
              THEN e.sequence[e.currentStepIndex + 1]
              ELSE e.sequence[1]
      announce == step.prayer = "mysteryAnnounce"
      m == Field(step, "mysteryIndex", 0)
      cur == Field(step, "decadeIndex", Field(step, "mysteryIndex", 0))
  IN [ engineState |-> e.engineState,
       mysteryType |-> e.mysteryType,
       currentStepIndex |-> e.currentStepIndex,
       totalSteps |-> Len(e.sequence),
       currentStep |-> step,
       currentPrayerText |-> IF announce THEN MysteryMeditation(e.mysteryType, m)
                             ELSE << "PRAYERS.text", step.prayer >>,
       currentPrayerTitle |-> IF announce
                              THEN << "decNum. name", Field(step, "decadeIndex", 0) + 1,
                                      MysteryName(e.mysteryType, m) >>
                              ELSE << "PRAYERS.title", step.prayer >>,
       currentBeadIndex |-> Field(step, "beadIndex", -1),
       currentDecadeIndex |-> Field(step, "decadeIndex", -1),
       currentMysteryName |-> MysteryName(e.mysteryType, cur),
       currentMeditationText |-> MysteryMeditation(e.mysteryType, cur),
       wordIndex |-> e.wordIndex,
       language |-> e.language,
       voiceDescription |-> e.voiceDescription ]

\* a call of getState() as a method: nothing assigned, nothing emitted
getStateCall(e) == [ engine |-> e, ret |-> "snapshot", emit |-> FALSE ]

setLanguage(e, language, voiceDescription) ==
  [ engine |-> [e EXCEPT !.language = language,
                         !.voiceDescription = voiceDescription],
    ret |-> "void", emit |-> TRUE ]

subscribe(e, cb) ==
  [ engine |-> [e EXCEPT !.listeners = Append(@, cb)],
    ret |-> "void", emit |-> FALSE ]

\* the handle returned by subscribe: listeners.filter(l => l !== cb)
unsubscribe(e, cb) ==
  [ engine |-> [e EXCEPT !.listeners = SelectSeq(@, LAMBDA l : l # cb)],
    ret |-> "void", emit |-> FALSE ]

\* start that keeps the step index
start_keepIndex(e) ==
  [ engine |-> [e EXCEPT !.engineState = "playing", !.wordIndex = 0],
    ret |-> "void", emit |-> TRUE ]

start(e) ==
  [ engine |-> [e EXCEPT !.engineState = "playing",
                         !.currentStepIndex = 0,
                         !.wordIndex = 0],
    ret |-> "void", emit |-> TRUE ]

pause(e) ==
  [ engine |-> [e EXCEPT !.engineState = "paused"],
    ret |-> "void", emit |-> TRUE ]

resume(e) ==
  [ engine |-> [e EXCEPT !.engineState = "playing"],
    ret |-> "void", emit |-> TRUE ]

\* nextStep that forgets to reset the word index
nextStep_keepWord(e) ==
  IF e.currentStepIndex < Len(e.sequence) - 1
  THEN [ engine |-> [e EXCEPT !.currentStepIndex = @ + 1],
         ret |-> "true", emit |-> TRUE ]
  ELSE [ engine |-> [e EXCEPT !.engineState = "finished"],
         ret |-> "false", emit |-> TRUE ]

\* nextStep that reports the end only on the call that reaches finished
nextStep_falseOnce(e) ==
  IF e.currentStepIndex < Len(e.sequence) - 1
  THEN [ engine |-> [e EXCEPT !.currentStepIndex = @ + 1, !.wordIndex = 0],
         ret |-> "true", emit |-> TRUE ]
  ELSE [ engine |-> [e EXCEPT !.engineState = "finished"],
         ret |-> IF e.engineState = "finished" THEN "true" ELSE "false",
         emit |-> TRUE ]

nextStep(e) ==
  IF e.currentStepIndex < Len(e.sequence) - 1
  THEN [ engine |-> [e EXCEPT !.currentStepIndex = @ + 1, !.wordIndex = 0],
         ret |-> "true", emit |-> TRUE ]
  ELSE [ engine |-> [e EXCEPT !.engineState = "finished"],
         ret |-> "false", emit |-> TRUE ]

\* prevStep without the guard on index 0
prevStep_unguarded(e) ==
  [ engine |-> [e EXCEPT !.currentStepIndex = @ - 1, !.wordIndex = 0],
    ret |-> "void", emit |-> TRUE ]

prevStep(e) ==
  IF e.currentStepIndex > 0
  THEN [ engine |-> [e EXCEPT !.currentStepIndex = @ - 1, !.wordIndex = 0],
         ret |-> "void", emit |-> TRUE ]
  ELSE [ engine |-> e, ret |-> "void", emit |-> FALSE ]

\* setWordIndex that does not emit
setWordIndex_silent(e, idx) ==
  [ engine |-> [e EXCEPT !.wordIndex = idx], ret |-> "void", emit |-> FALSE ]

setWordIndex(e, idx) ==
  [ engine |-> [e EXCEPT !.wordIndex = idx], ret |-> "void", emit |-> TRUE ]

\* a jumpToStep without the range check
jumpToStep_unguarded(e, idx) ==
  [ engine |-> [e EXCEPT !.currentStepIndex = idx, !.wordIndex = 0],
    ret |-> "void", emit |-> TRUE ]

jumpToStep(e, idx) ==
  IF idx >= 0 /\ idx < Len(e.sequence)
  THEN [ engine |-> [e EXCEPT !.currentStepIndex = idx, !.wordIndex = 0],
         ret |-> "void", emit |-> TRUE ]
  ELSE [ engine |-> e, ret |-> "void", emit |-> FALSE ]

(***************************************************************************)
(* rosary-data.ts: getMysteryForDate.  day is Date.getDay(), 0 = Sunday.   *)
(***************************************************************************)
\* a getMysteryForDate that gives Wednesday to the sorrowful mysteries
getMysteryForDate_wedSorrowful(day) ==
  CASE day \in {0} -> "glorious"
    [] day \in {1, 6} -> "joyful"
    [] day \in {2, 3, 5} -> "sorrowful"
    [] OTHER -> "luminous"

getMysteryForDate(day) ==
  CASE day = 0 -> "glorious"
    [] day = 1 -> "joyful"
    [] day = 2 -> "sorrowful"
    [] day = 3 -> "glorious"
    [] day = 4 -> "luminous"
    [] day = 5 -> "sorrowful"
    [] day = 6 -> "joyful"

(***************************************************************************)
(* storage-manager.ts: the audio cache.  A key is the triple the template  *)
(* string joins with "::", normalised.  An entry is [key, audio, text];     *)
(* audio is "good" (decodeAudioData accepts it) or "corrupt".              *)
(***************************************************************************)
\* s.toLowerCase().replace(/\s+/g, '-') on the strings that occur in keys
LowerHyphen(s) ==
  CASE s = "English" -> "english"
    [] s = "Latin" -> "latin"
    [] s = "elderly rural Piedmontese farmer" -> "elderly-rural-piedmontese-farmer"
    [] s = "signOfCross" -> "signofcross"
    [] s = "apostlesCreed" -> "apostlescreed"
    [] s = "ourFather" -> "ourfather"
    [] s = "hailMary" -> "hailmary"
    [] s = "gloryBe" -> "glorybe"
    [] s = "mysteryAnnounce" -> "mysteryannounce"
    [] s = "fatimaPrayer" -> "fatimaprayer"
    [] s = "hailHolyQueen" -> "hailholyqueen"
    [] s = "closingPrayer" -> "closingprayer"
    [] s = "goInPeace" -> "goinpeace"
    [] OTHER -> s

\* prayerKey is the tuple of the parts joined with "-": the prayer name and
\* the indices
buildCacheKey(prayerKey, language, voiceDescription) ==
  << [prayerKey EXCEPT ![1] = LowerHyphen(@)],
     LowerHyphen(language), LowerHyphen(voiceDescription) >>

\* loadAudioCache: the entry's audioData, or "none" (no entry, or no
\* database).  The promise it returns is not awaited inside its try: when
\* database.transaction() throws in the executor, the promise rejects and
\* the catch does not see it ("threw").
loadAudioCache(cache, db, key) ==
  IF db = "closed" THEN "threw"
  ELSE IF db \in {"ok", "full"} /\ \E x \in cache : x.key = key
  THEN (CHOOSE x \in cache : x.key = key).audio
  ELSE "none"

\* a saveAudioCache that adds (store.add) and so keeps an older entry of
\* the key
saveAudioCache_keepsOlder(cache, db, entry) ==
  IF db = "ok" /\ ~\E x \in cache : x.key = entry.key
  THEN cache \cup {entry}
  ELSE cache

\* saveAudioCache: store.put(entry) replaces the entry of the same key;
\* a failure to open the database or to start the transaction is caught,
\* and a transaction that aborts later is not looked at
saveAudioCache(cache, db, entry) ==
  IF db = "ok"
  THEN {x \in cache : x.key # entry.key} \cup {entry}
  ELSE cache

\* clearAudioCache: store.clear(); a failure to open the database or to
\* start the transaction is caught
clearAudioCache(cache, db) ==
  IF db \in {"ok", "full"} THEN {} ELSE cache

(***************************************************************************)
(* storage-manager.ts: the preferences.  A RosaryPreferences is a record   *)
(* of language, voiceDescription, theme and secondLanguage ("undefined"    *)
(* when the optional member is not set).                                   *)
(***************************************************************************)
Themes == {"night", "day"}
Prefs ==
  [ language : {"English", "Latin"}, voiceDescription : {DefaultVoice},
    theme : Themes, secondLanguage : {"undefined", "Latin"} ]

\* nothing stored; also the null loadPreferences returns
NoPrefs == [none |-> TRUE]
\* loadPreferences rejected
PrefsThrew == [threw |-> TRUE]

\* JSON.stringify(prefs): the members that are not undefined
JSONstringify(p) ==
  [ json |-> [f \in {g \in DOMAIN p : p[g] # "undefined"} |-> p[f]] ]
\* JSON.parse(raw)
JSONparse(raw) == raw.json

\* { id: 'main', ...prefs }
MainRecord(p) ==
  [ id |-> "main", language |-> p.language, voiceDescription |-> p.voiceDescription,
    theme |-> p.theme, secondLanguage |-> p.secondLanguage ]

\* a savePreferences that writes localStorage only in its catch branch
savePreferences_eitherOr(store, local, db, p) ==
  [ store |-> IF db = "ok" THEN MainRecord(p) ELSE store,
    local |-> IF db \in {"ok", "full"} THEN local ELSE JSONstringify(p) ]

\* savePreferences: put into the store 'preferences' when the database
\* opens and the transaction starts (the put itself is not waited for: one
\* that aborts changes nothing), and localStorage.setItem in both branches
savePreferences(store, local, db, p) ==
  [ store |-> IF db = "ok" THEN MainRecord(p) ELSE store,
    local |-> JSONstringify(p) ]

\* loadPreferences: req.result || null when the get succeeds; localStorage
\* when the database does not open or the get fails.  As in
\* loadAudioCache, a throw of database.transaction() rejects the promise.
loadPreferences(store, local, db) ==
  IF db = "closed" THEN PrefsThrew
  ELSE IF db \in {"ok", "full"} THEN store
  ELSE IF local # NoPrefs THEN JSONparse(local)
  ELSE NoPrefs

(***************************************************************************)
(* app.ts: the TTSRequest built by playNextStep and by downloadForOffline. *)
(* A text is a tuple naming the string the code builds.                    *)
(***************************************************************************)
CurrentStep(e) == e.sequence[e.currentStepIndex + 1]

\* playNextStep: text and prayerKey of the engine's current step
PlayRequest(e, language, voiceDescription) ==
  LET step == CurrentStep(e)
      text == CASE step.prayer = "mysteryAnnounce" ->
                     << "title+meditation", e.mysteryType, Field(step, "mysteryIndex", 0) >>
                [] step.prayer = "goInPeace" -> << "Go in peace." >>
                [] OTHER -> << "PRAYERS.text", step.prayer >>
  IN [ text |-> text,
       language |-> language,
       voiceDescription |-> voiceDescription,
       prayerKey |-> << step.prayer, Field(step, "decadeIndex", 0),
                        Field(step, "hailMaryIndex", 0) >> ]

\* downloadForOffline: text and prayerKey of step i (0-based) of the sequence
DownloadRequest(mysteryType, i, language, voiceDescription) ==
  LET step == buildRosarySequence(mysteryType)[i + 1]
      text == IF step.prayer = "mysteryAnnounce"
              THEN << "mystery.name", mysteryType, Field(step, "mysteryIndex", 0) >>
              ELSE << "PRAYERS.text", step.prayer >>
  IN [ text |-> text,
       language |-> language,
       voiceDescription |-> voiceDescription,
       prayerKey |-> << step.prayer, Field(step, "decadeIndex", 0) >> ]

\* text.split(/\s+/).filter(Boolean).length; every prayer text is cut to its
\* first MaxWords words
WordCount(text) == MaxWords

(***************************************************************************)
(* audio-manager.ts: class AudioManager.                                   *)
(*                                                                         *)
(* am is the record of its fields: audioCtx ("none" before the first       *)
(* getCtx, else the AudioContext state), isPaused, currentSource and       *)
(* wordTimer (0 for null, else the call that created the source / the      *)
(* interval).  isPlaying is only ever assigned false and onWordCb is only  *)
(* read for cached wordTimings, which saveAudioCache never stores; both    *)
(* are left out.                                                           *)
(*                                                                         *)
(* A call is one asynchronous invocation: playNextStep (mode "play") or     *)
(* downloadForOffline (mode "download").  chains[c] is its position and    *)
(* its locals:                                                             *)
(*   pc         free | cache, decodeC, fetch, backoff, decodeF (awaits     *)
(*              inside generateAudio) | silent, audio (awaits of playStep) *)
(*              | gap (the pause before nextStep) | returned               *)
(*   req        the TTSRequest                                             *)
(*   attempt    fetchXAIAudio's attempt                                    *)
(*   data       the bytes being decoded                                    *)
(*   idx        playSilentWordPaced's idx / the word timeouts fired        *)
(*   interval   this call's setInterval is running                         *)
(*   srcStopped stop() was called on this call's source                    *)
(*   result     what generateAudio returned                                *)
(*   dl         downloadForOffline's position in the sequence              *)
(* and, recorded for the properties only:                                  *)
(*   n0         the failures the proxy had left when generateAudio began   *)
(*   hit        loadAudioCache returned audio data                         *)
(*   mark       how the AudioManager was driven during this playStep:      *)
(*              none | paused (pause() during playback, no resume() or     *)
(*              stop() since) | stopped (stop() during playback) |         *)
(*              stoppedGen (stop() while generateAudio was pending); it is *)
(*              kept until the playStep completes                          *)
(***************************************************************************)
Chains == 1..MaxChains
GenPhases == {"cache", "decodeC", "fetch", "backoff", "decodeF"}
PlayPhases == {"silent", "audio"}

NoRequest == [text |-> <<>>, language |-> "", voiceDescription |-> "", prayerKey |-> <<>>]

FreeChain ==
  [ pc |-> "free", mode |-> "none", req |-> NoRequest, attempt |-> 0,
    data |-> "none", idx |-> 0, interval |-> FALSE, srcStopped |-> FALSE,
    result |-> "none", dl |-> 0, n0 |-> 0, hit |-> FALSE, mark |-> "none",
    got |-> "none" ]

NewAudioManager ==
  [ audioCtx |-> "none", isPaused |-> FALSE, currentSource |-> 0, wordTimer |-> 0 ]

\* generateAudio up to its first await (loadAudioCache)
NewCall(mode, req, dl, px) ==
  [ FreeChain EXCEPT !.pc = "cache", !.mode = mode, !.req = req, !.dl = dl,
                     !.n0 = px.fails ]

HasFree(ch) == \E c \in Chains : ch[c].pc = "free"
Slot(ch) == CHOOSE c \in Chains : ch[c].pc = "free" /\ \A d \in Chains : ch[d].pc = "free" => c <= d

\* getCtx(): create the context if there is none, resume it if suspended
getCtx(a) == [a EXCEPT !.audioCtx = "running"]

\* if (attempt < 2): the budget of the older fetchXAIAudio
MayRetry_two(attempt) == attempt < 2

\* if (attempt < 3)
MayRetry(attempt) == attempt < MaxAttempts

AM_pause(a, ch) ==
  [ am |-> [a EXCEPT !.isPaused = TRUE,
                     !.audioCtx = IF a.currentSource # 0 /\ @ # "none"
                                  THEN "suspended" ELSE @],
    chains |-> [c \in Chains |->
                  [ch[c] EXCEPT !.mark =
                     IF ch[c].pc \in PlayPhases /\ @ = "none" THEN "paused" ELSE @]] ]

AM_resume(a, ch) ==
  [ am |-> [a EXCEPT !.isPaused = FALSE,
                     !.audioCtx = IF @ # "none" THEN "running" ELSE @],
    chains |-> [c \in Chains |->
                  [ch[c] EXCEPT !.mark = IF @ = "paused" THEN "none" ELSE @]] ]

\* stop(): the call whose interval is cleared can never settle and is dropped
AM_stop(a, ch) ==
  [ am |-> [a EXCEPT !.isPaused = FALSE, !.currentSource = 0, !.wordTimer = 0,
                     !.audioCtx = IF @ # "none" THEN "suspended" ELSE @],
    chains |-> [c \in Chains |->
                  IF c = a.wordTimer THEN FreeChain
                  ELSE [ch[c] EXCEPT
                          !.srcStopped = @ \/ (c = a.currentSource),
                          !.mark = IF ch[c].mode = "play" /\ ch[c].pc \in GenPhases
                                   THEN "stoppedGen"
                                   ELSE IF ch[c].pc \in PlayPhases /\ @ # "stoppedGen"
                                   THEN "stopped"
                                   ELSE @]] ]

\* onStateChange, run by emit(): isRunning after the call with result r
Notify(r, run) ==
  IF /\ r.emit
     /\ \E i \in 1..Len(r.engine.listeners) : r.engine.listeners[i] = "onStateChange"
     /\ r.engine.engineState = "finished"
  THEN FALSE
  ELSE run

(***************************************************************************)
(* State.                                                                  *)
(*   engine     the RosaryEngine instance                                  *)
(*   lastOp     the method most recently called on it by the driver        *)
(*   lastRet    what that call returned                                    *)
(*   emitted    the listeners that call notified, in call order            *)
(*   tailCalls  consecutive nextStep() calls made at the last index        *)
(*   tailFalse  how many of those returned false                           *)
(*   snapshot   the RosaryState last computed by getState() for the driver *)
(*              (called directly, or by emit() for the listeners)          *)
(*   isRunning, currentLanguage   globals of app.ts                        *)
(*   prompting  the language prompt is showing                             *)
(*   startTimer handleLanguageSelected's setTimeout(startRosary) is pending*)
(*   today      new Date().getDay()                                        *)
(*   inputs     the inputs to the playback controls handled on this visit  *)
(*   am, chains the AudioManager and the asynchronous calls                *)
(*   leaked     an interval runs whose call has completed (its handle was  *)
(*              overwritten, so nothing can clear it)                      *)
(*   orphans    word indices of setTimeout callbacks whose playStep has    *)
(*              completed                                                  *)
(*   audioCache, idb   the IndexedDB audio store, and whether it opens     *)
(*              (unavailable: indexedDB.open fails; full: reads work, the  *)
(*              transaction of a put aborts; closed: the connection kept   *)
(*              in db has been closed, database.transaction() throws)      *)
(*   proxy      /api/tts: fails = failing responses left (-1: every        *)
(*              response fails), corrupt = its audio does not decode,      *)
(*              failure = the status of its failing responses              *)
(*   env        the bindings of the /api/tts function: XAI_API_KEY set,    *)
(*              AUDIO_CACHE bound                                          *)
(*   kvStore    the AUDIO_CACHE namespace: byte length stored under each   *)
(*              key, 0 for no entry                                        *)
(*   worker     the invocation of onRequestPost in progress                *)
(*   prefsStore the record 'main' of the IndexedDB store 'preferences'     *)
(*   localPrefs the string under 'rosari-prefs' in localStorage            *)
(*   storeOp    the function of storage-manager.ts most recently called    *)
(*              directly, with its arguments, what the store was like (at) *)
(*              and what the call returned                                 *)
(*   written    the keys passed to saveAudioCache since the audio store    *)
(*              was last cleared                                           *)
(***************************************************************************)
VARIABLES engine, lastOp, lastRet, emitted, tailCalls, tailFalse, snapshot,
          isRunning, currentLanguage, prompting, startTimer, today,
          am, chains, leaked, orphans, audioCache, idb, proxy,
          env, kvStore, worker,
          prefsStore, localPrefs, storeOp, written, inputs

engineVars == <<engine, lastOp, lastRet, emitted, tailCalls, tailFalse, snapshot>>
driverVars == <<lastOp, lastRet, emitted, tailCalls, tailFalse, snapshot>>
appVars == <<isRunning, currentLanguage, prompting, startTimer, today, inputs>>
audioVars == <<am, chains, leaked, orphans>>
envVars == <<audioCache, idb, proxy>>
serverVars == <<env, kvStore, worker>>
storeVars == <<prefsStore, localPrefs, storeOp, written>>
vars == <<engine, lastOp, lastRet, emitted, tailCalls, tailFalse, snapshot,
          isRunning, currentLanguage, prompting, startTimer, today,
          am, chains, leaked, orphans, audioCache, idb, proxy,
          env, kvStore, worker,
          prefsStore, localPrefs, storeOp, written, inputs>>

\* let engine: RosaryEngine before startRosary has run
NoEngine == [none |-> TRUE]
HasEngine(e) == "sequence" \in DOMAIN e

(***************************************************************************)
(* functions/api/tts.js: the /api/tts proxy.  A JSON value of body.text is *)
(* a record: its kind (typeof), its value if it is a number, and if it is  *)
(* a string its length, the length of text.trim(), and lower, which stands *)
(* for the characters of text.trim().toLowerCase().                        *)
(***************************************************************************)
CACHE_VERSION == "v3-ws"
\* text.length > 8000
MaxTextLength == 8000
\* cached.byteLength > 500
MinCachedBytes == 500
\* totalLen < 400
MinPcmBytes == 400
\* new ArrayBuffer(44)
WavHeaderBytes == 44
\* const SAMPLE_RATE = 24000, NUM_CHANNELS = 1, BITS = 16
SAMPLE_RATE == 24000
NUM_CHANNELS == 1
BITS == 16
\* events the upstream delivers to one session
MaxMessages == 4

TextValue(kind, value, length, trimmed, lower) ==
  [kind |-> kind, value |-> value, length |-> length, trimmed |-> trimmed,
   lower |-> lower]

Undefined == TextValue("undefined", 0, 0, 0, "")

Texts ==
  { Undefined,
    TextValue("number", 0, 0, 0, ""),
    TextValue("number", 5, 0, 0, ""),
    TextValue("string", 0, 0, 0, ""),
    TextValue("string", 0, 3, 0, ""),
    TextValue("string", 0, 3, 3, "ave"),
    TextValue("string", 0, 5, 3, "ave"),
    TextValue("string", 0, MaxTextLength, MaxTextLength, "credo"),
    TextValue("string", 0, MaxTextLength, 0, ""),
    TextValue("string", 0, MaxTextLength + 1, MaxTextLength + 1, "credo."),
    TextValue("string", 0, MaxTextLength + 1, 3, "ave") }

\* request bodies: one that request.json() cannot parse, and objects
Bodies ==
  { [json |-> FALSE, text |-> Undefined] }
  \cup { [json |-> TRUE, text |-> t] : t \in Texts }

\* !text
Falsy(text) ==
  CASE text.kind = "undefined" -> TRUE
    [] text.kind = "number" -> text.value = 0
    [] text.kind = "string" -> text.length = 0

\* onRequestPost accepting exactly up to 7999 characters
InvalidText_below(text) ==
  \/ Falsy(text)
  \/ text.kind # "string"
  \/ text.trimmed = 0
  \/ text.length >= MaxTextLength

\* !text || typeof text !== 'string' || text.trim().length === 0 || text.length > 8000
InvalidText(text) ==
  \/ Falsy(text)
  \/ text.kind # "string"
  \/ text.trimmed = 0
  \/ text.length > MaxTextLength

\* s.trim().toLowerCase() of the language and voice strings of a request
TrimLower(str) == IF str = "English" THEN "english" ELSE str

ServerVoice == "elderly male, gravelly voice, slow and reverent"

\* buildCacheKey of tts.js: SHA-256 of the joined parts, taken as injective
ttsCacheKey(text, language, voiceDescription) ==
  << CACHE_VERSION, text.lower, TrimLower(language), TrimLower(voiceDescription) >>

KvKeys ==
  { ttsCacheKey(t, "English", ServerVoice) : t \in { u \in Texts : ~InvalidText(u) } }

\* pcm16ToWav: the byte length of the container
pcm16ToWav(dataLen) == WavHeaderBytes + dataLen

\* no response yet, and the responses onRequestPost builds
\* (status, X-TTS-Provider, byte length of an audio body, Content-Type, and
\* the fallback and reason members of a JSON body)
NoResponse ==
  [status |-> 0, provider |-> "", bytes |-> 0, contentType |-> "",
   fallback |-> "", reason |-> ""]
Response(status, provider, bytes) ==
  [status |-> status, provider |-> provider, bytes |-> bytes,
   contentType |-> "audio/wav", fallback |-> "", reason |-> ""]
BadRequest ==
  [status |-> 400, provider |-> "", bytes |-> 0,
   contentType |-> "application/json", fallback |-> "", reason |-> ""]

\* a 503 whose body carries no fallback instruction
ttsUnavailable_bare(reason) ==
  [status |-> 503, provider |-> "fallback", bytes |-> 0,
   contentType |-> "application/json", fallback |-> "", reason |-> reason]

ttsUnavailable(reason) ==
  [status |-> 503, provider |-> "fallback", bytes |-> 0,
   contentType |-> "application/json", fallback |-> "web-speech",
   reason |-> reason]

(***************************************************************************)
(* xaiVoiceTTS: the state of the promise's closure.  createdSeen,          *)
(* completionSeen and collectedEarly record what the upstream has sent and *)
(* whether a delta was stored before response.create went out; events      *)
(* counts the upstream's events and last names the latest one.  arrived    *)
(* lists the audio deltas in the order the upstream sent them, and pcmLen  *)
(* is the running total of the bytes pushed to pcmChunks.                  *)
(***************************************************************************)
NoSession == [ws |-> "none"]

NewSession ==
  [ ws             |-> "open",
    sent           |-> <<>>,
    pcmChunks      |-> <<>>,
    pcmLen         |-> 0,
    arrived        |-> <<>>,
    sessionReady   |-> FALSE,
    responseDone   |-> FALSE,
    timer          |-> TRUE,
    promise        |-> "pending",
    wav            |-> <<>>,
    wavLen         |-> 0,
    err            |-> "",
    events         |-> 0,
    last           |-> "",
    createdSeen    |-> FALSE,
    completionSeen |-> FALSE,
    collectedEarly |-> FALSE ]

\* resolve and reject settle the promise once
resolve(s, wav, wavLen) ==
  IF s.promise = "pending"
  THEN [s EXCEPT !.promise = "resolved", !.wav = wav, !.wavLen = wavLen]
  ELSE s
reject(s, message) ==
  IF s.promise = "pending"
  THEN [s EXCEPT !.promise = "rejected", !.err = message]
  ELSE s

\* pcmChunks.reduce((s, c) => s + c.byteLength, 0)
RECURSIVE totalLen(_)
totalLen(chunks) ==
  IF chunks = <<>> THEN 0 ELSE Head(chunks).bytes + totalLen(Tail(chunks))

\* for (const chunk of pcmChunks) { combined.set(chunk, offset); offset += ... }:
\* the chunks as they lie in combined, each with the offset it was written at
RECURSIVE Combine(_, _)
Combine(chunks, offset) ==
  IF chunks = <<>> THEN <<>>
  ELSE << [at |-> offset, chunk |-> Head(chunks)] >>
       \o Combine(Tail(chunks), offset + Head(chunks).bytes)

\* a header that counts itself in the data-chunk size
WavHeader_countsHeader(dataLen) ==
  [ riff |-> "RIFF", riffSize |-> 36 + dataLen, wave |-> "WAVE",
    fmt |-> "fmt ", fmtSize |-> 16, format |-> 1,
    channels |-> NUM_CHANNELS, sampleRate |-> SAMPLE_RATE,
    byteRate |-> (SAMPLE_RATE * NUM_CHANNELS * BITS) \div 8,
    blockAlign |-> (NUM_CHANNELS * BITS) \div 8, bits |-> BITS,
    dataTag |-> "data", dataSize |-> WavHeaderBytes + dataLen ]

\* the fields pcm16ToWav writes into the header, in the order of their
\* offsets (0, 4, 8, 12, 16, 20, 22, 24, 28, 32, 34, 36, 40).  The 32-bit
\* fields hold the length as it is: a PCM buffer collected within one
\* session stays far below 2^32 bytes.
WavHeader(dataLen) ==
  [ riff |-> "RIFF", riffSize |-> 36 + dataLen, wave |-> "WAVE",
    fmt |-> "fmt ", fmtSize |-> 16, format |-> 1,
    channels |-> NUM_CHANNELS, sampleRate |-> SAMPLE_RATE,
    byteRate |-> (SAMPLE_RATE * NUM_CHANNELS * BITS) \div 8,
    blockAlign |-> (NUM_CHANNELS * BITS) \div 8, bits |-> BITS,
    dataTag |-> "data", dataSize |-> dataLen ]

\* the WAV container: the 44-byte header (its length and its fields), then
\* the data, dataLen bytes
Wav(data, dataLen) ==
  [header |-> WavHeaderBytes, fields |-> WavHeader(dataLen), data |-> data]

\* finish(err): err = "" stands for finish(null)
finish(s, err) ==
  LET closed == [s EXCEPT !.timer = FALSE, !.ws = "closed"]
  IN  IF err # "" THEN reject(closed, err)
      ELSE IF totalLen(closed.pcmChunks) < MinPcmBytes
      THEN reject(closed, "xAI returned empty audio")
      ELSE resolve(closed, Wav(Combine(closed.pcmChunks, 0), totalLen(closed.pcmChunks)),
                   pcm16ToWav(totalLen(closed.pcmChunks)))

\* texts the upstream chooses: msg.error.message, event.reason
UpstreamTexts == {"rate limit reached for team 41", "model overloaded"}

\* messages of the upstream: type, for a delta the bytes it decodes to, for
\* an error its message
MessageTypes ==
  { "unparsable", "session.created", "session.updated", "response.audio.delta",
    "response.audio.done", "response.done", "error" }
DeltaBytes == {0, 200, 400}
Messages ==
  { [type |-> t, delta |-> 0, text |-> ""] :
      t \in MessageTypes \ {"response.audio.delta", "error"} }
  \cup { [type |-> "response.audio.delta", delta |-> n, text |-> ""] : n \in DeltaBytes }
  \cup { [type |-> "error", delta |-> 0, text |-> t] : t \in UpstreamTexts }

\* a delta handler that puts the newest chunk first
onDelta_prepending(s, msg) ==
  IF msg.delta > 0
  THEN [s EXCEPT !.pcmChunks = << [ev |-> s.events, bytes |-> msg.delta] >> \o @,
                 !.pcmLen = @ + msg.delta,
                 !.arrived = Append(@, [ev |-> s.events, bytes |-> msg.delta]),
                 !.collectedEarly =
                   @ \/ \A i \in 1..Len(s.sent) : s.sent[i] # "response.create"]
  ELSE s

\* case 'response.audio.delta': the chunk is the bytes of event number ev
onDelta(s, msg) ==
  IF msg.delta > 0
  THEN [s EXCEPT !.pcmChunks = Append(@, [ev |-> s.events, bytes |-> msg.delta]),
                 !.pcmLen = @ + msg.delta,
                 !.arrived = Append(@, [ev |-> s.events, bytes |-> msg.delta]),
                 !.collectedEarly =
                   @ \/ \A i \in 1..Len(s.sent) : s.sent[i] # "response.create"]
  ELSE s

\* ws.addEventListener('message', ...)
onMessage(s0, msg) ==
  LET s == [s0 EXCEPT !.events = @ + 1, !.last = msg.type]
  IN  CASE msg.type = "session.created" ->
             [s EXCEPT !.sent = @ \o << "session.update",
                                        "conversation.item.create",
                                        "response.create" >>,
                       !.sessionReady = TRUE,
                       !.createdSeen = TRUE]
        [] msg.type = "response.audio.delta" -> onDelta(s, msg)
        [] msg.type \in {"response.audio.done", "response.done"} ->
             IF ~s.responseDone
             THEN finish([s EXCEPT !.responseDone = TRUE, !.completionSeen = TRUE],
                         "")
             ELSE [s EXCEPT !.completionSeen = TRUE]
        [] msg.type = "error" -> finish(s, msg.text)
        [] OTHER -> s

\* ws.addEventListener('error', ...)
onError(s0) ==
  finish([s0 EXCEPT !.events = @ + 1, !.last = "ws.error"], "[object ErrorEvent]")

\* a close handler that takes the audio received so far as the result
onClose_lenient(s0, reason) ==
  LET s == [s0 EXCEPT !.events = @ + 1, !.last = "ws.close"]
  IN  IF ~s.responseDone
      THEN finish(s, IF s.pcmLen < MinPcmBytes THEN reason ELSE "")
      ELSE s

\* ws.addEventListener('close', ...): event.reason is the upstream's
onClose(s0, reason) ==
  LET s == [s0 EXCEPT !.events = @ + 1, !.last = "ws.close"]
  IN  IF ~s.responseDone THEN finish(s, reason) ELSE s

\* the 28 s timer
onTimeout(s) ==
  reject([s EXCEPT !.timer = FALSE, !.ws = "closed", !.last = "timeout"],
         "xAI TTS timeout (28s)")

\* no kv.put in flight
NoPut == [key |-> <<>>, bytes |-> 0]

\* an invocation of onRequestPost: where it stands, the body it was given,
\* its cache key, what it has called so far, the kv.put it has started and
\* not seen settle, and its response
NewWorker ==
  [ pc       |-> "idle",
    body     |-> [json |-> FALSE, text |-> Undefined],
    key      |-> <<>>,
    kvReads  |-> 0,
    kvWrites |-> 0,
    upstream |-> FALSE,
    session  |-> NoSession,
    put      |-> NoPut,
    response |-> NoResponse ]

\* the proxy with nothing in progress, as the client-side models leave it
ServerIdle ==
  /\ env = [XAI_API_KEY |-> TRUE, AUDIO_CACHE |-> TRUE]
  /\ kvStore = [k \in KvKeys |-> 0]
  /\ worker = NewWorker

\* storage-manager.ts not called directly, no preferences saved
NoStoreOp ==
  [ op |-> "none", key |-> <<>>, audio |-> "none", prefs |-> NoPrefs,
    at |-> "none", ret |-> "none", got |-> NoPrefs ]

StoreIdle ==
  /\ prefsStore = NoPrefs
  /\ localPrefs = NoPrefs
  /\ storeOp = NoStoreOp
  /\ written = {}

\* the page before anything has run
PageIdle ==
  /\ isRunning = FALSE
  /\ prompting = TRUE
  /\ startTimer = FALSE
  /\ am = NewAudioManager
  /\ chains = [c \in Chains |-> FreeChain]
  /\ leaked = FALSE
  /\ orphans = {}
  /\ inputs = 0

\* the state outside the engine before anything has run, on a first visit
AppIdle ==
  /\ PageIdle
  /\ audioCache = {}

NoSnapshot == [none |-> TRUE]

\* a direct call of method op with result r = [engine, ret, emit]
Call(op, r) ==
  /\ engine' = r.engine
  /\ snapshot' = IF r.emit \/ op = "getState" THEN getState(r.engine) ELSE snapshot
  /\ lastOp' = op
  /\ lastRet' = r.ret
  /\ emitted' = IF r.emit THEN r.engine.listeners ELSE <<>>
  /\ IF op = "nextStep" /\ engine.currentStepIndex = LastIndex(engine)
     THEN /\ tailCalls' = Min(tailCalls + 1, MaxTailCalls)
          /\ tailFalse' = IF r.ret = "false"
                          THEN Min(tailFalse + 1, MaxTailCalls)
                          ELSE tailFalse
     ELSE /\ tailCalls' = 0
          /\ tailFalse' = 0
  /\ UNCHANGED <<appVars, audioVars, envVars, serverVars, storeVars>>

InitEngine ==
  /\ engine \in {NewEngine(m) : m \in MysteryTypes}
  /\ lastOp = "new"
  /\ lastRet = "void"
  /\ emitted = <<>>
  /\ tailCalls = 0
  /\ tailFalse = 0
  /\ snapshot = NoSnapshot
  /\ AppIdle
  /\ currentLanguage = "English"
  /\ today = 0
  /\ idb = "ok"
  /\ proxy = [fails |-> 0, corrupt |-> FALSE, failure |-> "503"]
  /\ ServerIdle
  /\ StoreIdle

\* indices handed to jumpToStep: below, at both ends of, and beyond the range
JumpTargets == {-1, 0, LastIndex(engine), LastIndex(engine) + 1}

CallStart == Call("start", start(engine))
CallPause == Call("pause", pause(engine))
CallResume == Call("resume", resume(engine))
CallNextStep == Call("nextStep", nextStep(engine))
CallPrevStep == Call("prevStep", prevStep(engine))
CallSetWordIndex == \E i \in 0..MaxWordIndex : Call("setWordIndex", setWordIndex(engine, i))
CallJumpToStep == \E i \in JumpTargets : Call("jumpToStep", jumpToStep(engine, i))
CallSetLanguage == \E l \in Languages : Call("setLanguage", setLanguage(engine, l, DefaultVoice))
CallSubscribe ==
  /\ Len(engine.listeners) < MaxListeners
  /\ \E cb \in Callbacks : Call("subscribe", subscribe(engine, cb))
CallGetState == Call("getState", getStateCall(engine))
CallUnsubscribe ==
  \E cb \in Callbacks :
    /\ \E i \in 1..Len(engine.listeners) : engine.listeners[i] = cb
    /\ Call("unsubscribe", unsubscribe(engine, cb))

NextEngine ==
  \/ CallStart
  \/ CallPause
  \/ CallResume
  \/ CallNextStep
  \/ CallPrevStep
  \/ CallSetWordIndex
  \/ CallJumpToStep
  \/ CallSetLanguage
  \/ CallSubscribe
  \/ CallUnsubscribe
  \/ CallGetState

\* the engine driven by arbitrary method calls
EngineSpec == InitEngine /\ [][NextEngine]_vars

\* the engine constructed for a mystery type and stepped through the
\* sequence buildRosarySequence gave it, from the first step to the last
NextWalk ==
  \/ CallStart
  \/ CallNextStep
  \/ CallGetState

WalkSpec == InitEngine /\ [][NextWalk]_vars

(***************************************************************************)
(* The asynchronous continuations of generateAudio, playStep and           *)
(* playNextStep.  Each action is one resumption of call c: from the await  *)
(* it is parked at to its next await.                                      *)
(***************************************************************************)
\* generateAudio returns res to call c (a and ch are am and chains as the
\* caller leaves them).  downloadForOffline just receives the result.
\* playStep goes on: playSilentWordPaced calls onWord(0) and arms the
\* interval, overwriting this.wordTimer; otherwise the word timeouts are set,
\* and playBuffer resumes the context, sets currentSource and starts the source.
\* The locals of generateAudio (attempt, hit) end with it.
Return(c, res, a, ch) ==
  IF ch[c].mode = "download"
  THEN /\ chains' = [ch EXCEPT ![c].pc = "returned", ![c].result = res, ![c].data = "none"]
       /\ am' = a
       /\ UNCHANGED <<engine, isRunning, serverVars, storeVars>>
  ELSE IF res = "fallback"
  THEN LET r == setWordIndex(engine, 0)
       IN /\ engine' = r.engine
          /\ isRunning' = Notify(r, isRunning)
          /\ am' = [a EXCEPT !.wordTimer = c]
          /\ chains' = [ch EXCEPT ![c].pc = "silent", ![c].result = res, ![c].data = "none",
                                  ![c].attempt = 0, ![c].hit = FALSE,
                                  ![c].got = "none",
                                  ![c].idx = 0, ![c].interval = TRUE]
  ELSE /\ am' = [getCtx(a) EXCEPT !.currentSource = c]
       /\ chains' = [ch EXCEPT ![c].pc = "audio", ![c].result = res, ![c].data = "none",
                               ![c].attempt = 0, ![c].hit = FALSE,
                               ![c].got = "none",
                               ![c].idx = 0, ![c].srcStopped = FALSE]
       /\ UNCHANGED <<engine, isRunning, serverVars, storeVars>>

\* playNextStep() run to its first await by call c, with engine e and
\* isRunning run: the chains after it
playNextStep(c, e, run, language, px, ch) ==
  IF HasEngine(e) /\ run /\ e.engineState = "playing"
  THEN [ch EXCEPT ![c] = NewCall("play", PlayRequest(e, language, DefaultVoice), 0, px)]
  ELSE [ch EXCEPT ![c] = FreeChain]

\* playNextStep() called from an event handler: it needs a call slot only
\* if it gets past its guards
Spawns(e, run) == HasEngine(e) /\ run /\ e.engineState = "playing"

\* await loadAudioCache(cacheKey); when it rejects, generateAudio rejects
CacheLoaded(c) ==
  /\ chains[c].pc = "cache"
  /\ LET q == chains[c].req
         audio == loadAudioCache(audioCache, idb,
                                 buildCacheKey(q.prayerKey, q.language, q.voiceDescription))
     IN IF audio = "threw"
        THEN /\ am' = am
             /\ chains' = [chains EXCEPT ![c].pc = "threw"]
        ELSE IF audio # "none"
        THEN /\ am' = getCtx(am)
             /\ chains' = [chains EXCEPT ![c].pc = "decodeC", ![c].data = audio,
                                         ![c].hit = TRUE]
        ELSE /\ am' = am
             /\ chains' = [chains EXCEPT ![c].pc = "fetch", ![c].attempt = 1]
  /\ UNCHANGED <<engine, driverVars, appVars, leaked, orphans, envVars, serverVars, storeVars>>

\* a generateAudio that gives up on a cached entry it cannot decode
DecodeCached_failsFast(c) ==
  /\ chains[c].pc = "decodeC"
  /\ IF chains[c].data = "good"
     THEN Return(c, "real", am, chains)
     ELSE Return(c, "fallback", am, chains)
  /\ UNCHANGED <<driverVars, currentLanguage, prompting, startTimer, today, inputs,
                 leaked, orphans, envVars, serverVars, storeVars>>

\* await ctx.decodeAudioData(cached.audioData); a decode error is caught and
\* the call goes on to the proxy
DecodeCached(c) ==
  /\ chains[c].pc = "decodeC"
  /\ IF chains[c].data = "good"
     THEN Return(c, "real", am, chains)
     ELSE /\ chains' = [chains EXCEPT ![c].pc = "fetch", ![c].attempt = 1,
                                      ![c].data = "none"]
          /\ UNCHANGED <<engine, isRunning, am, serverVars, storeVars>>
  /\ UNCHANGED <<driverVars, currentLanguage, prompting, startTimer, today, inputs,
                 leaked, orphans, envVars, serverVars, storeVars>>

\* await fetch('/api/tts'): a failure is a rejected fetch (network error,
\* timeout), a non-ok or JSON response, or a body under 500 bytes; all three
\* branches retry while attempt < 3 and else return null
FetchResponse(c) ==
  /\ chains[c].pc = "fetch"
  /\ proxy' = [proxy EXCEPT !.fails = IF @ > 0 THEN @ - 1 ELSE @]
  /\ IF proxy.fails # 0
     THEN IF MayRetry(chains[c].attempt)
          THEN /\ chains' = [chains EXCEPT ![c].pc = "backoff",
                                           ![c].got = proxy.failure]
               /\ UNCHANGED <<engine, isRunning, am, serverVars, storeVars>>
          ELSE Return(c, "fallback", am, [chains EXCEPT ![c].got = proxy.failure])
     ELSE /\ am' = getCtx(am)
          /\ chains' = [chains EXCEPT ![c].pc = "decodeF",
                          ![c].data = IF proxy.corrupt THEN "corrupt" ELSE "good",
                          ![c].got = IF proxy.corrupt THEN "corrupt" ELSE "good"]
          /\ UNCHANGED <<engine, isRunning, serverVars, storeVars>>
  /\ UNCHANGED <<driverVars, currentLanguage, prompting, startTimer, today, inputs,
                 leaked, orphans, audioCache, idb, serverVars, storeVars>>

\* await new Promise(r => setTimeout(r, 2000 * attempt)), then the next attempt
BackoffDone(c) ==
  /\ chains[c].pc = "backoff"
  /\ chains' = [chains EXCEPT ![c].pc = "fetch", ![c].attempt = @ + 1]
  /\ UNCHANGED <<engine, driverVars, appVars, am, leaked, orphans, envVars, serverVars, storeVars>>

\* a generateAudio that stores the fetched bytes before decoding them
DecodeFetched_savesFirst(c) ==
  /\ chains[c].pc = "decodeF"
  /\ LET q == chains[c].req
     IN audioCache' = saveAudioCache(audioCache, idb,
                        [ key |-> buildCacheKey(q.prayerKey, q.language,
                                                q.voiceDescription),
                          audio |-> chains[c].data, text |-> q.text ])
  /\ IF chains[c].data = "good"
     THEN Return(c, "real", am, chains)
     ELSE Return(c, "fallback", am, chains)
  /\ UNCHANGED <<driverVars, currentLanguage, prompting, startTimer, today, inputs,
                 leaked, orphans, idb, proxy, serverVars, storeVars>>

\* await ctx.decodeAudioData(xaiData) and, when it succeeds, await
\* saveAudioCache(...) straight after it (nothing of the call's own runs
\* between the two); a decode error is caught and falls through to the
\* silent fallback
DecodeFetched(c) ==
  /\ chains[c].pc = "decodeF"
  /\ IF chains[c].data = "good"
     THEN /\ LET q == chains[c].req
             IN audioCache' = saveAudioCache(audioCache, idb,
                                [ key |-> buildCacheKey(q.prayerKey, q.language,
                                                        q.voiceDescription),
                                  audio |-> chains[c].data, text |-> q.text ])
          /\ Return(c, "real", am, chains)
     ELSE /\ Return(c, "fallback", am, chains)
          /\ UNCHANGED audioCache
  /\ UNCHANGED <<driverVars, currentLanguage, prompting, startTimer, today, inputs,
                 leaked, orphans, idb, proxy, serverVars, storeVars>>

\* the setInterval callback of playSilentWordPaced.  On the last tick it
\* clears whatever interval this.wordTimer holds now, which is its own only
\* if no later playSilentWordPaced has overwritten the handle.
Tick(c) ==
  /\ chains[c].pc = "silent"
  /\ chains[c].interval
  /\ IF chains[c].idx + 1 >= WordCount(chains[c].req.text)
     THEN /\ chains' = [d \in Chains |->
                          IF d = c THEN [chains[c] EXCEPT !.pc = "gap", !.interval = FALSE,
                                                          !.idx = 0, !.mark = "none"]
                          ELSE IF d = am.wordTimer THEN [chains[d] EXCEPT !.interval = FALSE]
                          ELSE chains[d]]
          /\ leaked' = (leaked \/ am.wordTimer # c)
          /\ am' = [am EXCEPT !.wordTimer = 0]
          /\ UNCHANGED <<engine, isRunning, serverVars, storeVars>>
     ELSE LET r == setWordIndex(engine, chains[c].idx + 1)
          IN /\ engine' = r.engine
             /\ isRunning' = Notify(r, isRunning)
             /\ chains' = [chains EXCEPT ![c].idx = @ + 1]
             /\ UNCHANGED <<am, leaked, serverVars, storeVars>>
  /\ UNCHANGED <<driverVars, currentLanguage, prompting, startTimer, today, inputs,
                 orphans, envVars, serverVars, storeVars>>

\* a tick of an interval that outlived its call: idx >= words.length holds
\* for good, so it clears the interval this.wordTimer holds
LeakedTick ==
  /\ leaked
  /\ am.wordTimer # 0
  /\ chains' = [chains EXCEPT ![am.wordTimer].interval = FALSE]
  /\ am' = [am EXCEPT !.wordTimer = 0]
  /\ UNCHANGED <<engine, driverVars, appVars, leaked, orphans, envVars, serverVars, storeVars>>

\* setTimeout(() => onWord(i), interval * i) of playStep
WordTimeout(c) ==
  /\ chains[c].pc = "audio"
  /\ chains[c].idx < WordCount(chains[c].req.text)
  /\ LET r == setWordIndex(engine, chains[c].idx)
     IN /\ engine' = r.engine
        /\ isRunning' = Notify(r, isRunning)
  /\ chains' = [chains EXCEPT ![c].idx = @ + 1]
  /\ UNCHANGED <<driverVars, currentLanguage, prompting, startTimer, today, inputs,
                 am, leaked, orphans, envVars, serverVars, storeVars>>

\* source.onended: the buffer has played to its end (the word timeouts, set
\* within its duration, have fired) or stop() was called on the source; the
\* event is delivered while the context is running
AudioEnded(c) ==
  /\ chains[c].pc = "audio"
  /\ am.audioCtx = "running"
  /\ chains[c].srcStopped \/ chains[c].idx = WordCount(chains[c].req.text)
  /\ am' = [am EXCEPT !.currentSource = 0]
  /\ orphans' = orphans \cup (chains[c].idx .. WordCount(chains[c].req.text) - 1)
  /\ chains' = [chains EXCEPT ![c].pc = "gap", ![c].idx = 0, ![c].srcStopped = FALSE,
                              ![c].mark = "none"]
  /\ UNCHANGED <<engine, driverVars, appVars, leaked, envVars, serverVars, storeVars>>

\* a word timeout of a playStep that has already completed
OrphanTimeout ==
  \E i \in orphans :
    /\ LET r == setWordIndex(engine, i)
       IN /\ engine' = r.engine
          /\ isRunning' = Notify(r, isRunning)
    /\ orphans' = orphans \ {i}
    /\ UNCHANGED <<driverVars, currentLanguage, prompting, startTimer, today, inputs,
                   am, chains, leaked, envVars, serverVars, storeVars>>

\* await new Promise(r => setTimeout(r, pauseDur)), then engine.nextStep()
\* on the engine that is current now, and playNextStep() again
GapDone(c) ==
  /\ chains[c].pc = "gap"
  /\ LET r == nextStep(engine)
         run == Notify(r, isRunning)
     IN /\ engine' = r.engine
        /\ isRunning' = run
        /\ chains' = IF r.ret = "true" /\ run
                     THEN playNextStep(c, r.engine, run, currentLanguage, proxy, chains)
                     ELSE [chains EXCEPT ![c] = FreeChain]
  /\ UNCHANGED <<driverVars, currentLanguage, prompting, startTimer, today, inputs,
                 am, leaked, orphans, envVars, serverVars, storeVars>>

\* downloadForOffline after await generateAudio: the next of the first
\* DownloadSteps steps, or the end of the loop
DownloadNext(c) ==
  /\ chains[c].pc = "returned"
  /\ chains' = IF chains[c].dl + 1 < DownloadSteps
               THEN [chains EXCEPT ![c] =
                       NewCall("download",
                               DownloadRequest(getMysteryForDate(today), chains[c].dl + 1,
                                               currentLanguage, DefaultVoice),
                               chains[c].dl + 1, proxy)]
               ELSE [chains EXCEPT ![c] = FreeChain]
  /\ UNCHANGED <<engine, driverVars, appVars, am, leaked, orphans, envVars, serverVars, storeVars>>

\* generateAudio rejected: downloadForOffline awaits it outside any try, and
\* so do playStep and the playNextStep that awaits playStep, so the
\* rejection ends the download, or the playback loop, where it stands
Rejected(c) ==
  /\ chains[c].pc = "threw"
  /\ chains' = [chains EXCEPT ![c] = FreeChain]
  /\ UNCHANGED <<engine, driverVars, appVars, am, leaked, orphans, envVars, serverVars, storeVars>>

(***************************************************************************)
(* app.ts: the event handlers.  Each action is one handler run to          *)
(* completion (to the first await of the playNextStep it may call).        *)
(***************************************************************************)
\* new RosaryEngine(mysteryType); the playback loop is followed over the
\* first PlaySteps steps of the sequence
AppEngine(mysteryType) ==
  [NewEngine(mysteryType) EXCEPT !.sequence = SubSeq(@, 1, PlaySteps)]

\* startRosary() with e0 for new RosaryEngine(mysteryType): the engine is
\* subscribed and started, and playNextStep() called
startRosaryWith(e0) ==
  LET e1 == setLanguage(e0, currentLanguage, DefaultVoice).engine
      e2 == subscribe(e1, "onStateChange").engine
      r == start(e2)
  IN /\ HasFree(chains)
     /\ engine' = r.engine
     /\ isRunning' = Notify(r, TRUE)
     /\ chains' = playNextStep(Slot(chains), r.engine, Notify(r, TRUE),
                               currentLanguage, proxy, chains)
     /\ UNCHANGED <<am, serverVars, storeVars>>

\* startRosary()
startRosary == startRosaryWith(AppEngine(getMysteryForDate(today)))

\* click on play-pause-btn
PlayPauseClick ==
  /\ inputs < MaxInputs
  /\ inputs' = inputs + 1
  /\ IF ~HasEngine(engine)
     THEN startRosary
     ELSE IF engine.engineState = "playing"
     THEN LET r == pause(engine)
              p == AM_pause(am, chains)
          IN /\ engine' = r.engine
             /\ am' = p.am
             /\ chains' = p.chains
             /\ isRunning' = FALSE
     ELSE IF engine.engineState = "paused"
     THEN LET r == resume(engine)
              p == AM_resume(am, chains)
          IN /\ HasFree(p.chains)
             /\ engine' = r.engine
             /\ am' = p.am
             /\ isRunning' = TRUE
             /\ chains' = playNextStep(Slot(p.chains), r.engine, TRUE,
                                       currentLanguage, proxy, p.chains)
     ELSE LET r == start(engine)
          IN /\ HasFree(chains)
             /\ engine' = r.engine
             /\ isRunning' = TRUE
             /\ chains' = playNextStep(Slot(chains), r.engine, TRUE,
                                       currentLanguage, proxy, chains)
             /\ am' = am
  /\ UNCHANGED <<driverVars, currentLanguage, prompting, startTimer, today,
                 leaked, orphans, envVars, serverVars, storeVars>>

\* click on prev-btn: engine?.prevStep()
PrevClick ==
  /\ inputs < MaxInputs
  /\ inputs' = inputs + 1
  /\ HasEngine(engine)
  /\ LET r == prevStep(engine)
     IN /\ engine' = r.engine
        /\ isRunning' = Notify(r, isRunning)
  /\ UNCHANGED <<driverVars, currentLanguage, prompting, startTimer, today,
                 audioVars, envVars, serverVars, storeVars>>

\* click on next-btn: engine?.nextStep(); if (isRunning) { stop(); playNextStep() }
NextClick ==
  /\ inputs < MaxInputs
  /\ inputs' = inputs + 1
  /\ HasEngine(engine)
  /\ LET r == nextStep(engine)
         run == Notify(r, isRunning)
         p == AM_stop(am, chains)
     IN /\ engine' = r.engine
        /\ isRunning' = run
        /\ IF run
           THEN /\ am' = p.am
                /\ IF Spawns(r.engine, run)
                   THEN /\ HasFree(p.chains)
                        /\ chains' = playNextStep(Slot(p.chains), r.engine, run,
                                                  currentLanguage, proxy, p.chains)
                   ELSE chains' = p.chains
           ELSE UNCHANGED <<am, chains, serverVars, storeVars>>
  /\ UNCHANGED <<driverVars, currentLanguage, prompting, startTimer, today,
                 leaked, orphans, envVars, serverVars, storeVars>>

\* click on change-language-btn: stop(); isRunning = false; startLanguageSelection()
ChangeLanguageClick ==
  /\ inputs < MaxInputs
  /\ inputs' = inputs + 1
  /\ LET p == AM_stop(am, chains)
     IN /\ am' = p.am
        /\ chains' = p.chains
  /\ isRunning' = FALSE
  /\ prompting' = TRUE
  /\ UNCHANGED <<engine, driverVars, currentLanguage, startTimer, today,
                 leaked, orphans, envVars, serverVars, storeVars>>

\* handleLanguageSelected(result), from the recognizer or the text input of
\* the prompt: the language is taken and startRosary is set to run in 1200 ms
LanguageSelected ==
  /\ inputs < MaxInputs
  /\ inputs' = inputs + 1
  /\ prompting
  /\ ~startTimer
  /\ \E l \in SpokenLanguages : currentLanguage' = l
  /\ startTimer' = TRUE
  /\ UNCHANGED <<engine, driverVars, isRunning, prompting, today, audioVars, envVars, serverVars, storeVars>>

\* setTimeout(() => { hideVoicePrompt(); startRosary(); }, 1200)
StartRosaryTimer ==
  /\ startTimer
  /\ startTimer' = FALSE
  /\ prompting' = FALSE
  /\ startRosary
  /\ UNCHANGED <<driverVars, currentLanguage, today, inputs, leaked, orphans, envVars, serverVars, storeVars>>

\* voice command containing "pause": engine?.pause(); isRunning = false
VoicePause ==
  /\ inputs < MaxInputs
  /\ inputs' = inputs + 1
  /\ IF HasEngine(engine) THEN engine' = pause(engine).engine ELSE engine' = engine
  /\ isRunning' = FALSE
  /\ UNCHANGED <<driverVars, currentLanguage, prompting, startTimer, today,
                 audioVars, envVars, serverVars, storeVars>>

\* voice command containing "resume" or "continue":
\* engine?.resume(); isRunning = true; playNextStep()
VoiceResume ==
  /\ inputs < MaxInputs
  /\ inputs' = inputs + 1
  /\ IF HasEngine(engine)
     THEN /\ HasFree(chains)
          /\ engine' = resume(engine).engine
          /\ chains' = playNextStep(Slot(chains), resume(engine).engine, TRUE,
                                    currentLanguage, proxy, chains)
     ELSE UNCHANGED <<engine, chains, serverVars, storeVars>>
  /\ isRunning' = TRUE
  /\ UNCHANGED <<driverVars, currentLanguage, prompting, startTimer, today,
                 am, leaked, orphans, envVars, serverVars, storeVars>>

\* click on download-offline-btn: downloadForOffline() up to its first
\* await, generateAudio for step 0
DownloadClick ==
  /\ HasFree(chains)
  /\ chains' = [chains EXCEPT ![Slot(chains)] =
                  NewCall("download",
                          DownloadRequest(getMysteryForDate(today), 0,
                                          currentLanguage, DefaultVoice),
                          0, proxy)]
  /\ UNCHANGED <<engine, driverVars, appVars, am, leaked, orphans, envVars, serverVars, storeVars>>

(***************************************************************************)
(* The application: the page after init() on a first visit.  The proxy is  *)
(* up or down for the whole run.  The user gives up to MaxInputs inputs,   *)
(* in any order and at any moment.                                         *)
(***************************************************************************)
Init ==
  /\ engine = NoEngine
  /\ lastOp = "new"
  /\ lastRet = "void"
  /\ emitted = <<>>
  /\ tailCalls = 0
  /\ tailFalse = 0
  /\ snapshot = NoSnapshot
  /\ AppIdle
  /\ currentLanguage = "English"
  /\ today = 0
  /\ idb = "ok"
  /\ proxy \in {[fails |-> f, corrupt |-> FALSE, failure |-> "503"] : f \in {-1, 0}}
  /\ ServerIdle
  /\ StoreIdle

Timers ==
  \/ LeakedTick
  \/ OrphanTimeout
  \/ StartRosaryTimer

Continue(c) ==
  \/ CacheLoaded(c)
  \/ DecodeCached(c)
  \/ FetchResponse(c)
  \/ BackoffDone(c)
  \/ DecodeFetched(c)
  \/ Tick(c)
  \/ WordTimeout(c)
  \/ AudioEnded(c)
  \/ GapDone(c)

UserEvent ==
  \/ PlayPauseClick
  \/ PrevClick
  \/ NextClick
  \/ ChangeLanguageClick
  \/ LanguageSelected
  \/ VoicePause
  \/ VoiceResume

Next ==
  \/ UserEvent
  \/ Timers
  \/ \E c \in Chains : Continue(c)

Spec == Init /\ [][Next]_vars

(***************************************************************************)
(* The application while nothing calls AudioManager.pause() or stop(): the *)
(* play-pause button is not pressed while the engine is playing, the next  *)
(* button not while isRunning, the language-change button not at all.      *)
(* Timers fire, and promises settle, whenever they can: weak fairness on   *)
(* every continuation.  Of the user nothing but the bound on inputs.       *)
(***************************************************************************)
QuietEvent ==
  \/ PlayPauseClick /\ ~(HasEngine(engine) /\ engine.engineState = "playing")
  \/ NextClick /\ ~isRunning'
  \/ PrevClick
  \/ LanguageSelected
  \/ VoicePause
  \/ VoiceResume

\* without stop() no word timeout outlives its playStep
QuietTimers ==
  \/ LeakedTick
  \/ StartRosaryTimer

QuietNext ==
  \/ QuietEvent
  \/ QuietTimers
  \/ \E c \in Chains : Continue(c)

FairQuietSpec ==
  /\ Init
  /\ [][QuietNext]_vars
  /\ \A c \in Chains : WF_vars(Continue(c))
  /\ WF_vars(QuietTimers)

(***************************************************************************)
(* The playback loop left alone: startRosary() and then no user input,     *)
(* over the whole sequence, with the proxy up or down and the audio store  *)
(* working or closed.  After a rosary has finished the page may be         *)
(* visited again, on any day; the audio store is kept between visits.      *)
(* Timers fire and promises settle whenever they can.                      *)
(***************************************************************************)
\* startRosary(), called by the first play-pause click or by the timer of
\* the language prompt
LoopStart ==
  /\ ~HasEngine(engine)
  /\ startRosaryWith(NewEngine(getMysteryForDate(today)))
  /\ prompting' = FALSE
  /\ UNCHANGED <<driverVars, currentLanguage, startTimer, today, inputs,
                 leaked, orphans, envVars, serverVars, storeVars>>

\* the page is loaded again after a rosary has finished
Revisit ==
  /\ HasEngine(engine)
  /\ engine.engineState = "finished"
  /\ \A c \in Chains : chains[c].pc = "free"
  /\ orphans = {}
  /\ engine' = NoEngine
  /\ today' \in 0..6
  /\ isRunning' = FALSE
  /\ prompting' = TRUE
  /\ startTimer' = FALSE
  /\ am' = NewAudioManager
  /\ chains' = [c \in Chains |-> FreeChain]
  /\ leaked' = FALSE
  /\ orphans' = {}
  /\ inputs' = 0
  /\ UNCHANGED <<driverVars, currentLanguage, envVars, serverVars, storeVars>>

InitLoop ==
  /\ engine = NoEngine
  /\ lastOp = "new"
  /\ lastRet = "void"
  /\ emitted = <<>>
  /\ tailCalls = 0
  /\ tailFalse = 0
  /\ snapshot = NoSnapshot
  /\ AppIdle
  /\ currentLanguage = "English"
  /\ today \in 0..6
  /\ idb \in {"ok", "closed"}
  /\ proxy \in {[fails |-> f, corrupt |-> FALSE, failure |-> "503"] : f \in {-1, 0}}
  /\ ServerIdle
  /\ StoreIdle

NextLoop ==
  \/ LoopStart
  \/ Revisit
  \/ \E c \in Chains : Continue(c)
  \/ \E c \in Chains : Rejected(c)

FairLoopSpec ==
  /\ InitLoop
  /\ [][NextLoop]_vars
  /\ WF_vars(LoopStart)
  /\ \A c \in Chains : WF_vars(Continue(c))

(***************************************************************************)
(* downloadForOffline alone: one run of its loop at a time, against a      *)
(* proxy that fails its first proxy.fails responses, with the audio store  *)
(* working, missing, full or closed, and empty or holding a stale entry.   *)
(***************************************************************************)
\* an entry for the first step of the download, left by an earlier visit,
\* whose bytes decodeAudioData rejects
StaleEntry(language, day) ==
  LET q == DownloadRequest(getMysteryForDate(day), 0, language, DefaultVoice)
  IN  [ key |-> buildCacheKey(q.prayerKey, q.language, q.voiceDescription),
        audio |-> "corrupt", text |-> q.text ]

InitGen ==
  /\ engine = NoEngine
  /\ lastOp = "new"
  /\ lastRet = "void"
  /\ emitted = <<>>
  /\ tailCalls = 0
  /\ tailFalse = 0
  /\ snapshot = NoSnapshot
  /\ PageIdle
  /\ currentLanguage \in Languages
  /\ today \in 0..6
  /\ audioCache \in {{}, {StaleEntry(currentLanguage, today)}}
  /\ idb \in {"ok", "unavailable", "full", "closed"}
  /\ proxy \in [fails : -1..MaxFails, corrupt : BOOLEAN, failure : {"400", "503"}]
  /\ ServerIdle
  /\ StoreIdle

DownloadAlone ==
  /\ \A c \in Chains : chains[c].pc = "free"
  /\ DownloadClick

NextGen ==
  \/ DownloadAlone
  \/ \E c \in Chains :
       \/ CacheLoaded(c)
       \/ DecodeCached(c)
       \/ FetchResponse(c)
       \/ BackoffDone(c)
       \/ DecodeFetched(c)
       \/ DownloadNext(c)
       \/ Rejected(c)

GenSpec == InitGen /\ [][NextGen]_vars

(***************************************************************************)
(* functions/api/tts.js: onRequestPost, one action per stretch of code     *)
(* between awaits.  A step that settles the xaiVoiceTTS promise runs the   *)
(* rest of onRequestPost with it: nothing else runs between the two.       *)
(***************************************************************************)
clientVars == <<engineVars, appVars, audioVars, envVars, storeVars>>

\* the handler returns res
Answer(w, res) == [w EXCEPT !.pc = "done", !.response = res]

\* xaiVoiceTTS is called: the upgrade request to the upstream goes out
CallXai(w) == [w EXCEPT !.pc = "upgrade", !.upstream = TRUE]

\* a POST arrives: body parsing, validation and the API key check
PostRequest ==
  /\ worker.pc = "idle"
  /\ \E body \in Bodies :
       LET w == [worker EXCEPT !.body = body]
       IN  worker' =
             IF ~body.json THEN Answer(w, BadRequest)
             ELSE IF InvalidText(body.text) THEN Answer(w, BadRequest)
             ELSE IF ~env.XAI_API_KEY
             THEN Answer(w, ttsUnavailable("XAI_API_KEY not configured"))
             ELSE LET k == [w EXCEPT !.key = ttsCacheKey(body.text, "English", ServerVoice)]
                  IN  IF env.AUDIO_CACHE
                      THEN [k EXCEPT !.pc = "kvRead", !.kvReads = @ + 1]
                      ELSE CallXai(k)
  /\ UNCHANGED <<clientVars, env, kvStore>>

\* kv.getWithMetadata settles: it throws, misses, or gives the entry
KvRead ==
  /\ worker.pc = "kvRead"
  /\ \E ok \in BOOLEAN :
       LET cached == kvStore[worker.key]
       IN  worker' =
             IF ok /\ cached # 0 /\ cached > MinCachedBytes
             THEN Answer(worker, Response(200, "cache", cached))
             ELSE CallXai(worker)
  /\ UNCHANGED <<clientVars, env, kvStore>>

\* the fetch of the upgrade settles: a WebSocket, a plain response, or an
\* exception
Upgrade ==
  /\ worker.pc = "upgrade"
  /\ \E outcome \in {"websocket", "refused", "unreachable"} :
       worker' =
         IF outcome = "websocket"
         THEN [worker EXCEPT !.pc = "session", !.session = NewSession]
         ELSE Answer(worker, ttsUnavailable(
                IF outcome = "refused" THEN "WebSocket upgrade failed"
                ELSE "fetch failed"))
  /\ UNCHANGED <<clientVars, env, kvStore>>

\* the rest of onRequestPost that also stores what a failed session left
Settled_cachesFailure(s) ==
  LET w == [worker EXCEPT !.session = s]
  IN  /\ UNCHANGED kvStore
      /\ CASE s.promise = "pending" -> worker' = w
           [] s.promise = "rejected" ->
                worker' = Answer([w EXCEPT !.kvWrites = @ + 1,
                                           !.put = [key |-> w.key, bytes |-> s.wavLen]],
                                 ttsUnavailable(s.err))
           [] s.promise = "resolved" ->
                worker' = Answer([w EXCEPT !.kvWrites = @ + 1,
                                           !.put = [key |-> w.key, bytes |-> s.wavLen]],
                                 Response(200, "xai-realtime", s.wavLen))

\* the rest of onRequestPost once the session's promise stands as in s; the
\* kv.put it starts is not awaited
Settled(s) ==
  LET w == [worker EXCEPT !.session = s]
  IN  /\ UNCHANGED kvStore
      /\ CASE s.promise = "pending" -> worker' = w
           [] s.promise = "rejected" -> worker' = Answer(w, ttsUnavailable(s.err))
           [] s.promise = "resolved" ->
                worker' =
                  Answer(IF env.AUDIO_CACHE
                         THEN [w EXCEPT !.kvWrites = @ + 1,
                                        !.put = [key |-> w.key, bytes |-> s.wavLen]]
                         ELSE w,
                         Response(200, "xai-realtime", s.wavLen))

\* the kv.put settles: the entry is stored, or the write fails and is logged
KvPut ==
  /\ worker.put # NoPut
  /\ worker' = [worker EXCEPT !.put = NoPut]
  /\ \E stored \in BOOLEAN :
       kvStore' = IF stored
                  THEN [kvStore EXCEPT ![worker.put.key] = worker.put.bytes]
                  ELSE kvStore
  /\ UNCHANGED <<clientVars, env>>

InSession ==
  /\ worker.pc = "session"
  /\ worker.session.events < MaxMessages

WsMessage ==
  /\ InSession
  /\ \E msg \in Messages : Settled(onMessage(worker.session, msg))
  /\ UNCHANGED <<clientVars, env>>

WsError ==
  /\ InSession
  /\ Settled(onError(worker.session))
  /\ UNCHANGED <<clientVars, env>>

WsClose ==
  /\ InSession
  /\ \E reason \in UpstreamTexts : Settled(onClose(worker.session, reason))
  /\ UNCHANGED <<clientVars, env>>

Timeout ==
  /\ worker.pc = "session"
  /\ worker.session.timer
  /\ Settled(onTimeout(worker.session))
  /\ UNCHANGED <<clientVars, env>>

\* the invocation is over; the next request gets a new one (requests are
\* taken one at a time, each after the write of the one before has settled)
NextRequest ==
  /\ worker.pc = "done"
  /\ worker.put = NoPut
  /\ worker' = NewWorker
  /\ UNCHANGED <<clientVars, env, kvStore>>

\* a deployment: the API key set or not, the KV namespace bound or not and,
\* if bound, empty or holding audio stored earlier
StoredEarlier == pcm16ToWav(600)

InitProxy ==
  /\ engine = NoEngine
  /\ lastOp = "new"
  /\ lastRet = "void"
  /\ emitted = <<>>
  /\ tailCalls = 0
  /\ tailFalse = 0
  /\ snapshot = NoSnapshot
  /\ AppIdle
  /\ currentLanguage = "English"
  /\ today = 0
  /\ idb = "ok"
  /\ proxy = [fails |-> 0, corrupt |-> FALSE, failure |-> "503"]
  /\ env \in [XAI_API_KEY : BOOLEAN, AUDIO_CACHE : BOOLEAN]
  /\ kvStore \in [KvKeys -> {0, StoredEarlier}]
  /\ ~env.AUDIO_CACHE => kvStore = [k \in KvKeys |-> 0]
  /\ worker = NewWorker
  /\ StoreIdle

NextProxy ==
  \/ PostRequest
  \/ KvRead
  \/ Upgrade
  \/ WsMessage
  \/ WsError
  \/ WsClose
  \/ Timeout
  \/ KvPut
  \/ NextRequest

ProxySpec == InitProxy /\ [][NextProxy]_vars

\* the proxy where what the worker itself schedules does happen: its timer
\* fires and its KV calls settle.  Nothing is assumed of the upstream.
FairProxySpec ==
  /\ InitProxy
  /\ [][NextProxy]_vars
  /\ WF_vars(Timeout)
  /\ WF_vars(KvRead)
  /\ WF_vars(KvPut)

(***************************************************************************)
(* storage-manager.ts called directly: the audio cache and the             *)
(* preferences, one call at a time, each run to its end (a transaction     *)
(* opened by a later call starts after the earlier call's put is done).    *)
(* Between two calls the store may change: a reload, a full disk, a        *)
(* browser that refuses indexedDB.open.                                    *)
(***************************************************************************)
nonStoreVars == <<engineVars, appVars, audioVars, proxy, serverVars>>

\* the keys of two steps
StoreKeys ==
  { buildCacheKey(<< p, 0 >>, "English", DefaultVoice) : p \in {"signOfCross", "ourFather"} }

StoreStates == {"ok", "unavailable", "full"}

CallSaveAudioCache ==
  \E key \in StoreKeys, audio \in {"good", "corrupt"} :
    /\ audioCache' = saveAudioCache(audioCache, idb,
                                    [key |-> key, audio |-> audio, text |-> <<>>])
    /\ written' = written \cup {key}
    /\ storeOp' = [NoStoreOp EXCEPT !.op = "saveAudioCache", !.key = key,
                                    !.audio = audio, !.at = idb, !.ret = "void"]
    /\ UNCHANGED <<nonStoreVars, idb, prefsStore, localPrefs>>

CallLoadAudioCache ==
  \E key \in StoreKeys :
    /\ storeOp' = [NoStoreOp EXCEPT !.op = "loadAudioCache", !.key = key, !.at = idb,
                                    !.ret = loadAudioCache(audioCache, idb, key)]
    /\ UNCHANGED <<nonStoreVars, audioCache, idb, prefsStore, localPrefs, written>>

CallClearAudioCache ==
  /\ audioCache' = clearAudioCache(audioCache, idb)
  /\ written' = IF idb \in {"ok", "full"} THEN {} ELSE written
  /\ storeOp' = [NoStoreOp EXCEPT !.op = "clearAudioCache", !.at = idb, !.ret = "void"]
  /\ UNCHANGED <<nonStoreVars, idb, prefsStore, localPrefs>>

CallSavePreferences ==
  \E p \in Prefs :
    LET r == savePreferences(prefsStore, localPrefs, idb, p)
    IN  /\ prefsStore' = r.store
        /\ localPrefs' = r.local
        /\ storeOp' = [NoStoreOp EXCEPT !.op = "savePreferences", !.prefs = p,
                                        !.at = idb, !.ret = "void"]
        /\ UNCHANGED <<nonStoreVars, audioCache, idb, written>>

CallLoadPreferences ==
  /\ storeOp' = [NoStoreOp EXCEPT !.op = "loadPreferences", !.at = idb,
                                  !.ret = "prefs",
                                  !.got = loadPreferences(prefsStore, localPrefs, idb)]
  /\ UNCHANGED <<nonStoreVars, audioCache, idb, prefsStore, localPrefs, written>>

\* the store changes between two calls
StoreChanges ==
  /\ idb' \in StoreStates \ {idb}
  /\ UNCHANGED <<nonStoreVars, audioCache, storeVars>>

InitStore ==
  /\ engine = NoEngine
  /\ lastOp = "new"
  /\ lastRet = "void"
  /\ emitted = <<>>
  /\ tailCalls = 0
  /\ tailFalse = 0
  /\ snapshot = NoSnapshot
  /\ AppIdle
  /\ currentLanguage = "English"
  /\ today = 0
  /\ idb \in StoreStates
  /\ proxy = [fails |-> 0, corrupt |-> FALSE, failure |-> "503"]
  /\ ServerIdle
  /\ StoreIdle

NextStore ==
  \/ CallSaveAudioCache
  \/ CallLoadAudioCache
  \/ CallClearAudioCache
  \/ CallSavePreferences
  \/ CallLoadPreferences
  \/ StoreChanges

StorageSpec == InitStore /\ [][NextStore]_vars

(***************************************************************************)
(* Claims about the AudioManager and the playback loop.                    *)
(***************************************************************************)
\* call c is inside audioManager.playStep
InPlayStep(c) == chains[c].mode = "play" /\ chains[c].pc \in GenPhases \cup PlayPhases

\* C1: every playStep call that is not interrupted by pause() or stop()
\* eventually completes (reaches its onComplete), also when every request to
\* /api/tts fails and the cache holds nothing.  Checked where pause() and
\* stop() are never called at all, under FairQuietSpec.
C1_PlayStepCompletes ==
  \A c \in Chains : InPlayStep(c) ~> ~InPlayStep(c)

\* C2: a generateAudio call that found nothing in the cache, against a proxy
\* that fails its first n0 requests and then returns decodable audio, returns
\* real audio when n0 is below the budget of 3 attempts and the silent
\* fallback (no audio buffer) when n0 is 3 or more or the proxy never
\* recovers; fetchXAIAudio never sends a 4th request and the call always
\* returns one of the two results.
C2_RetryThenFallback ==
  \A c \in Chains :
    /\ chains[c].attempt <= 3
    /\ chains[c].pc = "returned" =>
         /\ chains[c].result \in {"real", "fallback"}
         /\ (~chains[c].hit /\ ~proxy.corrupt) =>
              /\ chains[c].attempt >= 1
              /\ chains[c].n0 \in 0..2 =>
                   chains[c].result = "real" /\ chains[c].attempt = chains[c].n0 + 1
              /\ (chains[c].n0 = -1 \/ chains[c].n0 >= 3) =>
                   chains[c].result = "fallback" /\ chains[c].attempt = 3

\* C2 witness: the second generateAudio call of a download began with the
\* proxy still failing twice (the first call had used up its three
\* attempts), missed the cache, and returned real audio on its third attempt.
C2_Witness ==
  \E c \in Chains :
    /\ chains[c].pc = "returned"
    /\ chains[c].dl = 1
    /\ ~chains[c].hit
    /\ chains[c].n0 = 2
    /\ chains[c].attempt = 3
    /\ chains[c].result = "real"
    /\ ~proxy.corrupt

\* C3: at most one playNextStep chain is live: no playStep is started while
\* an earlier playStep, or the pause and nextStep after it, is still pending.
C3_OneChainLive ==
  Cardinality({c \in Chains : chains[c].mode = "play"}) <= 1

\* C4: after stop() no word callback of a playStep that was playing fires
\* (neither one of its timeouts or interval ticks while it is still pending,
\* nor a timeout that outlived it), and every source it started is stopped.
C4_StopSilencesEarlierCalls ==
  /\ [][ /\ \A c \in Chains :
              (chains[c].mark = "stopped" /\ chains'[c].mark = "stopped")
                => chains'[c].idx = chains[c].idx
         /\ orphans \subseteq orphans' ]_vars
  /\ [](\A c \in Chains :
          (chains[c].mark = "stopped" /\ chains[c].pc = "audio") => chains[c].srcStopped)

\* C5: from pause() until the next resume() (or stop()) a playStep that was
\* playing, with real audio or silently, delivers no word and does not
\* complete.
C5_PauseHoldsPlayback ==
  [][ \A c \in Chains :
        (chains[c].mark = "paused" /\ am'.isPaused) =>
          /\ chains'[c].idx = chains[c].idx
          /\ chains'[c].pc = chains[c].pc ]_vars

\* C6: a playStep that was inside generateAudio when stop() was called never
\* gets to play (no audio, no word callback on the engine) and so never
\* reaches the nextStep after it.
C6_StaleCallNeverPlays ==
  \A c \in Chains : chains[c].mark = "stoppedGen" => chains[c].pc \in GenPhases

(***************************************************************************)
(* Claims about the engine, checked under EngineSpec.                      *)
(***************************************************************************)
AllowedTransitions ==
  { <<"idle", "playing">>, <<"playing", "paused">>,
    <<"paused", "playing">>, <<"playing", "finished">> }

\* C7: engineState changes only along idle->playing, playing->paused,
\* paused->playing and playing->finished; pause() and resume() called from an
\* inapplicable state leave it unchanged, and once it is finished only start()
\* changes it.
C7_OnlyDocumentedTransitions ==
  [][ engine'.engineState # engine.engineState =>
        \/ <<engine.engineState, engine'.engineState>> \in AllowedTransitions
        \/ lastOp' = "start" ]_vars

\* C8: nextStep() below the last index increments currentStepIndex by exactly
\* 1, sets wordIndex to 0, leaves engineState unchanged and returns true; at
\* the last index it leaves currentStepIndex unchanged, sets engineState to
\* finished and returns false.
C8_NextStepEffect ==
  [][ CallNextStep =>
        IF engine.currentStepIndex < LastIndex(engine)
        THEN /\ engine'.currentStepIndex = engine.currentStepIndex + 1
             /\ engine'.wordIndex = 0
             /\ engine'.engineState = engine.engineState
             /\ lastRet' = "true"
        ELSE /\ engine'.currentStepIndex = engine.currentStepIndex
             /\ engine'.engineState = "finished"
             /\ lastRet' = "false" ]_vars

\* C8 witness: nextStep() has just advanced onto the last index from a step
\* whose word index was not 0, and returned true.
C8_Witness ==
  /\ lastOp = "nextStep"
  /\ lastRet = "true"
  /\ engine.currentStepIndex = LastIndex(engine)
  /\ engine.wordIndex = 0
  /\ engine.engineState = "paused"

\* C9 (as stated): of the nextStep() calls made one after another from the
\* last index, exactly one returns false.
C9_FalseExactlyOnce == tailCalls >= 1 => tailFalse = 1

\* C9 (amended): every nextStep() call made from the last index returns
\* false, and from the first such call on the engine is finished and stays at
\* the last index for every further nextStep() call.
C9_FalseEveryTime ==
  tailCalls >= 1 =>
    /\ tailFalse = tailCalls
    /\ lastRet = "false"
    /\ engine.engineState = "finished"
    /\ engine.currentStepIndex = LastIndex(engine)

\* C9 witness: nextStep() was called at least twice in a row at the last index.
C9_Witness == tailCalls >= 2 /\ lastOp = "nextStep"

\* the fields prevStep() must not touch
PrevStepFrame ==
  /\ engine'.engineState = engine.engineState
  /\ engine'.sequence = engine.sequence
  /\ engine'.language = engine.language
  /\ engine'.voiceDescription = engine.voiceDescription

\* C10 (as stated): prevStep() in any state sets currentStepIndex to
\* max(currentStepIndex - 1, 0), sets wordIndex to 0 and leaves engineState,
\* sequence, language and voiceDescription unchanged.
C10_PrevStepAlwaysResetsWord ==
  [][ CallPrevStep =>
        /\ engine'.currentStepIndex =
             IF engine.currentStepIndex > 0 THEN engine.currentStepIndex - 1 ELSE 0
        /\ engine'.wordIndex = 0
        /\ PrevStepFrame ]_vars

\* C10 (amended): prevStep() with currentStepIndex > 0 decrements it by 1 and
\* sets wordIndex to 0; with currentStepIndex = 0 it changes nothing (the index
\* stays 0, wordIndex keeps its value, no listener is notified); in both cases
\* engineState, sequence, language and voiceDescription are unchanged.
C10_PrevStepEffect ==
  [][ CallPrevStep =>
        /\ IF engine.currentStepIndex > 0
           THEN /\ engine'.currentStepIndex = engine.currentStepIndex - 1
                /\ engine'.wordIndex = 0
           ELSE /\ engine' = engine
                /\ emitted' = <<>>
        /\ PrevStepFrame ]_vars

\* C10 witness: prevStep() was called at index 0 of a finished engine whose
\* word index is not 0.
C10_Witness ==
  /\ lastOp = "prevStep"
  /\ engine.currentStepIndex = 0
  /\ engine.wordIndex # 0
  /\ engine.engineState = "finished"

\* C11: start() called in any engine state and at any step index sets
\* currentStepIndex to 0, wordIndex to 0 and engineState to playing, changes
\* nothing else of the engine, and notifies the subscribers.
C11_StartResets ==
  [][ CallStart =>
        /\ engine'.currentStepIndex = 0
        /\ engine'.wordIndex = 0
        /\ engine'.engineState = "playing"
        /\ engine'.sequence = engine.sequence
        /\ engine'.listeners = engine.listeners
        /\ emitted' = engine.listeners ]_vars

\* C11 witness: start() has just run on an engine with a subscriber, which
\* it notified.
C11_Witness ==
  /\ lastOp = "start"
  /\ Len(engine.listeners) >= 1
  /\ emitted = engine.listeners
  /\ engine.engineState = "playing"
  /\ engine.currentStepIndex = 0

\* the engine without its listeners: the fields a snapshot may depend on
WithoutListeners(e) == [e EXCEPT !.listeners = <<>>]

CallMutator ==
  \/ CallStart
  \/ CallPause
  \/ CallResume
  \/ CallNextStep
  \/ CallPrevStep
  \/ CallSetWordIndex

IntroLen == 7
DecadeLen == 14
ClosingLen == 4

\* the prayer the stated order puts at position k (1-based)
StatedPrayer(k) ==
  IF k <= IntroLen
  THEN << "signOfCross", "apostlesCreed", "ourFather", "hailMary",
          "hailMary", "hailMary", "gloryBe" >>[k]
  ELSE IF k <= IntroLen + NumDecades * DecadeLen
  THEN LET o == (k - IntroLen - 1) % DecadeLen
       IN  IF o = 0 THEN "mysteryAnnounce"
           ELSE IF o = 1 THEN "ourFather"
           ELSE IF o <= 11 THEN "hailMary"
           ELSE IF o = 12 THEN "gloryBe"
           ELSE "fatimaPrayer"
  ELSE << "hailHolyQueen", "closingPrayer", "signOfCross", "goInPeace" >>
         [k - IntroLen - NumDecades * DecadeLen]

\* the decade the stated order gives position k, or -1 outside the decades
StatedDecade(k) ==
  IF k > IntroLen /\ k <= IntroLen + NumDecades * DecadeLen
  THEN (k - IntroLen - 1) \div DecadeLen
  ELSE -1

InStatedOrder(seq) ==
  \A k \in 1..Len(seq) :
    /\ k <= IntroLen + NumDecades * DecadeLen + ClosingLen
    /\ seq[k].prayer = StatedPrayer(k)
    /\ Field(seq[k], "decadeIndex", -1) = StatedDecade(k)

\* C14 (as stated): for each mystery type the sequence has exactly 62 steps,
\* in the order intro, tail, five decades, closing.
C14_SixtyTwoSteps ==
  /\ Len(engine.sequence) = 62
  /\ InStatedOrder(engine.sequence)

\* C14 (amended): for each mystery type the sequence has exactly
\* 7 + 5 * 14 + 4 = 81 steps, in the order intro, tail, five decades, closing.
C14_EightyOneSteps ==
  /\ Len(engine.sequence) = IntroLen + NumDecades * DecadeLen + ClosingLen
  /\ Len(engine.sequence) = 81
  /\ InStatedOrder(engine.sequence)

\* C14 witness: an engine built for the luminous mysteries stands on the
\* valediction, the 81st and last step of its sequence.
C14_Witness ==
  /\ engine.mysteryType = "luminous"
  /\ engine.currentStepIndex = 80
  /\ engine.sequence[engine.currentStepIndex + 1].prayer = "goInPeace"
  /\ Len(engine.sequence) = 81

\* positions of the sequence that belong to a decade
DecadePositions(seq) == { k \in 1..Len(seq) : "decadeIndex" \in DOMAIN seq[k] }

\* C15: the Our Father of decade d has bead 6 + d*11 and its Hail Mary h has
\* bead 7 + d*11 + h; each decade has that Our Father and those ten Hail
\* Marys; the creed has bead 0, the tail Our Father 1, the tail Hail Marys
\* 2..4 and the tail Glory Be 5.
C15_BeadFormula ==
  LET seq == engine.sequence
  IN  /\ \A k \in DecadePositions(seq) :
            LET d == seq[k].decadeIndex
            IN  /\ seq[k].prayer = "ourFather" => seq[k].beadIndex = 6 + d * 11
                /\ seq[k].prayer = "hailMary" =>
                      seq[k].beadIndex = 7 + d * 11 + seq[k].hailMaryIndex
      /\ \A d \in 0..4 :
            /\ \E k \in DecadePositions(seq) :
                  seq[k].prayer = "ourFather" /\ seq[k].decadeIndex = d
            /\ \A h \in 0..9 :
                  \E k \in DecadePositions(seq) :
                    /\ seq[k].prayer = "hailMary"
                    /\ seq[k].decadeIndex = d
                    /\ seq[k].hailMaryIndex = h
      /\ \A k \in (1..Len(seq)) \ DecadePositions(seq) :
            /\ seq[k].prayer = "apostlesCreed" => seq[k].beadIndex = 0
            /\ seq[k].prayer = "ourFather" => seq[k].beadIndex = 1
            /\ seq[k].prayer = "hailMary" =>
                  seq[k].beadIndex = 2 + seq[k].hailMaryIndex
                  /\ seq[k].hailMaryIndex \in 0..2
            /\ seq[k].prayer = "gloryBe" => seq[k].beadIndex = 5

\* C15 witness: the engine stands on the last Hail Mary of the last decade,
\* which carries bead 60.
C15_Witness ==
  LET step == engine.sequence[engine.currentStepIndex + 1]
  IN  /\ step.prayer = "hailMary"
      /\ Field(step, "decadeIndex", -1) = 4
      /\ step.hailMaryIndex = 9
      /\ step.beadIndex = 60

\* the loop beads 6..60
LoopBeads == LoopBeadBase..(LoopBeadBase + totalLoopBeads - 1)

\* decade positions whose step carries bead b
CarryingBead(seq, b) ==
  { k \in DecadePositions(seq) : Field(seq[k], "beadIndex", -1) = b }

\* C16 (as stated): every loop bead 6..60 is the bead of exactly one step
\* among the decade steps that carry a bead index.
C16_OneStepPerBead ==
  \A b \in LoopBeads : Cardinality(CarryingBead(engine.sequence, b)) = 1

\* C16 (amended): every loop bead 6..60 is the bead of exactly one Our-Father
\* or Hail-Mary step of the decades, drawn as an Our-Father bead exactly when
\* that step is an Our Father; the Glory Be and the Fatima Prayer of decade d
\* carry bead 16 + d*11, the bead of the decade's tenth Hail Mary; the layout
\* has 61 positions.
C16_OneBeadPrayerPerBead ==
  LET seq == engine.sequence
      beadPrayers(b) == { k \in CarryingBead(seq, b) :
                            seq[k].prayer \in {"ourFather", "hailMary"} }
  IN  /\ Len(getBeadPositions) = 61
      /\ \A b \in LoopBeads :
            /\ Cardinality(beadPrayers(b)) = 1
            /\ \A k \in beadPrayers(b) :
                  (getBeadPositions[b + 1].type = "of") <=> (seq[k].prayer = "ourFather")
            /\ getBeadPositions[b + 1].type \in {"of", "hm"}
      /\ \A k \in DecadePositions(seq) :
            seq[k].prayer \in {"gloryBe", "fatimaPrayer"} =>
              /\ seq[k].beadIndex = 16 + seq[k].decadeIndex * 11
              /\ \E j \in DecadePositions(seq) :
                    /\ seq[j].prayer = "hailMary"
                    /\ seq[j].hailMaryIndex = 9
                    /\ seq[j].beadIndex = seq[k].beadIndex
      /\ \A k \in DecadePositions(seq) :
            "beadIndex" \in DOMAIN seq[k] => seq[k].beadIndex \in LoopBeads

\* C16 witness: the engine stands on the Fatima Prayer of the third decade,
\* whose bead 38 is also the bead of that decade's tenth Hail Mary.
C16_Witness ==
  LET step == engine.sequence[engine.currentStepIndex + 1]
  IN  /\ step.prayer = "fatimaPrayer"
      /\ Field(step, "decadeIndex", -1) = 2
      /\ step.beadIndex = 38
      /\ Cardinality(CarryingBead(engine.sequence, 38)) = 3

(***************************************************************************)
(* Claims about the /api/tts proxy.                                        *)
(***************************************************************************)
\* a text that is missing, not a string, empty, whitespace-only or longer
\* than 8000 characters
StatedInvalid(body) ==
  \/ ~body.json
  \/ body.text.kind # "string"
  \/ body.text.length = 0
  \/ body.text.trimmed = 0
  \/ body.text.length > 8000

C18_CacheHitServed ==
  [][ ( /\ worker.pc # "done"
        /\ worker'.pc = "done"
        /\ ~StatedInvalid(worker'.body)
        /\ kvStore[ttsCacheKey(worker'.body.text, "English", ServerVoice)] > 0 )
      => /\ worker'.response =
              Response(200, "cache",
                       kvStore[ttsCacheKey(worker'.body.text, "English", ServerVoice)])
         /\ ~worker'.upstream ]_vars

\* C19: nothing is sent before session.created; after it exactly the
\* session configuration, the text item and the audio-response request have
\* been sent, once each and in that order; no delta is collected before the
\* request was sent; the promise resolves only after a completion event.
C19_SessionOrder ==
  worker.session # NoSession =>
    LET s == worker.session
    IN  /\ ~s.createdSeen => s.sent = <<>>
        /\ s.createdSeen =>
             s.sent = << "session.update", "conversation.item.create",
                         "response.create" >>
        /\ ~s.collectedEarly
        /\ s.promise = "resolved" => s.completionSeen

\* C20: when the WebSocket errors or closes, no completion event having
\* arrived, the promise is rejected and the request answered 503, whatever
\* audio had been received; the promise never resolves without a
\* completion event.
C20_EarlyCloseRejects ==
  [][ /\ (WsError \/ WsClose) =>
           /\ worker'.session.promise = "rejected"
           /\ worker'.pc = "done"
           /\ worker'.response.status = 503
      /\ (worker'.session # NoSession /\ worker'.session.promise = "resolved") =>
           worker'.session.completionSeen ]_vars

\* C20 witness: the WebSocket closed after 800 bytes of audio, enough for a
\* result, and before any completion event; the request was answered 503.
C20_Witness ==
  /\ worker.pc = "done"
  /\ worker.session # NoSession
  /\ worker.session.last = "ws.close"
  /\ worker.session.pcmLen = 800
  /\ worker.session.createdSeen
  /\ ~worker.session.completionSeen
  /\ worker.session.promise = "rejected"
  /\ worker.response.status = 503

\* C21: every request that got past validation is eventually answered,
\* whatever the upstream does.
C21_AlwaysAnswered ==
  (worker.pc \in {"kvRead", "upgrade", "session"}) ~> (worker.pc = "done")

\* bytes of the deltas in seq
RECURSIVE SumBytes(_)
SumBytes(seq) == IF seq = <<>> THEN 0 ELSE seq[1].bytes + SumBytes(Tail(seq))

UpstreamFailed ==
  /\ worker.pc \in {"upgrade", "session"}
  /\ worker'.pc = "done"
  /\ ~(worker'.session # NoSession /\ worker'.session.promise = "resolved")

\* C23: a request whose upstream session fails (upgrade failure, error
\* event, timeout, early close, too little audio) is answered in that same
\* step with status 503, a JSON content type and the fallback instruction;
\* each of these failures ends the request.
C23_FailureGives503 ==
  [][ /\ UpstreamFailed =>
           /\ worker'.response.status = 503
           /\ worker'.response.contentType = "application/json"
           /\ worker'.response.fallback = "web-speech"
      /\ (WsError \/ WsClose \/ Timeout) => UpstreamFailed
      /\ (worker.pc = "session" /\ worker'.session.promise = "rejected") =>
           UpstreamFailed ]_vars

\* C23 witness: a completion event arrived with 200 bytes of audio received
\* and the request was answered 503.
C23_Witness ==
  /\ worker.pc = "done"
  /\ worker.session # NoSession
  /\ worker.session.completionSeen
  /\ worker.session.pcmLen = 200
  /\ worker.session.err = "xAI returned empty audio"
  /\ worker.response.status = 503
  /\ worker.response.fallback = "web-speech"

\* C24: no response carries a text chosen by the upstream.
C24_NoUpstreamText == worker.response.reason \notin UpstreamTexts

\* C25: a kv.put is started only in the step that answers 200 with newly
\* synthesized audio, under the request's key and with that audio; the
\* cache changes only when such a put settles; and the settling of the put,
\* stored or failed, changes nothing of the response.
C25_WriteOnlyAfterSynthesis ==
  [][ /\ (worker'.kvWrites > worker.kvWrites \/ (worker.put = NoPut /\ worker'.put # NoPut)) =>
           /\ worker'.pc = "done"
           /\ worker'.session # NoSession
           /\ worker'.session.promise = "resolved"
           /\ worker'.response = Response(200, "xai-realtime", worker'.session.wavLen)
           /\ worker'.put = [key |-> worker'.key, bytes |-> worker'.session.wavLen]
      /\ kvStore' # kvStore =>
           /\ worker.put # NoPut
           /\ worker.response.provider = "xai-realtime"
           /\ kvStore' = [kvStore EXCEPT ![worker.put.key] = worker.put.bytes]
      /\ KvPut => (worker'.response = worker.response /\ worker'.pc = worker.pc) ]_vars

\* C25 witness: the request was answered 200 with synthesized audio, its
\* kv.put has failed, and the cache still has no entry under its key.
C25_Witness ==
  /\ worker.pc = "done"
  /\ worker.kvWrites = 1
  /\ worker.put = NoPut
  /\ kvStore[worker.key] = 0
  /\ worker.response.status = 200
  /\ worker.response.provider = "xai-realtime"

(***************************************************************************)
(* generateAudio and the client cache.                                     *)
(***************************************************************************)
\* the entry the call's request is stored under
CacheKeyOf(c) ==
  buildCacheKey(chains[c].req.prayerKey, chains[c].req.language,
                chains[c].req.voiceDescription)

HoldsGood(cache, key) == \E x \in cache : x.key = key /\ x.audio = "good"

\* a cache hit that does not decode goes on to the proxy
CorruptHitIsMiss ==
  \A c \in Chains :
    chains[c].pc = "decodeC" /\ chains[c].data = "corrupt"
      => chains'[c].pc = "fetch" /\ chains'[c].attempt = 1

\* C26 as stated: in generateAudio a cache hit whose bytes fail to decode is
\* treated as a miss (the call goes on to fetch from the proxy), and once
\* fetchXAIAudio has returned data the call returns real audio and the
\* entry under the same key holds the new bytes.
C26_CorruptHitRefetchedAndOverwritten ==
  [][/\ CorruptHitIsMiss
     /\ \A c \in Chains :
          chains[c].pc = "decodeF" /\ chains[c].hit
            => /\ chains'[c].result = "real"
               /\ HoldsGood(audioCache', CacheKeyOf(c))]_vars

\* C26 amended: a cache hit whose bytes fail to decode is treated as a miss;
\* when the fetched bytes decode, the call returns real audio and writes
\* them under the same key, which replaces the corrupt entry when the
\* write succeeds.
C26_CorruptHitRefetched ==
  [][/\ CorruptHitIsMiss
     /\ \A c \in Chains :
          chains[c].pc = "decodeF" /\ chains[c].hit /\ chains[c].data = "good"
            => /\ chains'[c].result = "real"
               /\ idb = "ok" => HoldsGood(audioCache', CacheKeyOf(c))]_vars

\* C26 witness: a download call that hit a corrupt entry, fetched, returned
\* real audio and left a decodable entry under its key
C26_Witness ==
  \E c \in Chains :
    /\ chains[c].pc = "returned"
    /\ chains[c].hit
    /\ chains[c].got = "good"
    /\ chains[c].result = "real"
    /\ HoldsGood(audioCache, CacheKeyOf(c))

\* C27: when the fetched payload fails to decode, generateAudio asks the
\* proxy nothing more, writes nothing to the client cache and returns the
\* fallback; every entry the client cache receives holds bytes that decoded.
C27_UndecodableNeverCached ==
  [][/\ \A c \in Chains :
          chains[c].pc = "decodeF" /\ chains[c].data = "corrupt"
            => /\ chains'[c].pc = "returned"
               /\ chains'[c].result = "fallback"
               /\ audioCache' = audioCache
               /\ proxy' = proxy
     /\ \A x \in audioCache' \ audioCache : x.audio = "good"]_vars

\* C27 witness: a call whose fetched payload did not decode has returned the
\* fallback
C27_Witness ==
  \E c \in Chains :
    /\ chains[c].pc = "returned"
    /\ chains[c].got = "corrupt"
    /\ chains[c].result = "fallback"

\* C28: with a proxy that answers the first request with audio that
\* decodes, a call made while the client cache is failing (it does not
\* open, cannot be read, or does not take the write) ends by returning real
\* audio.
C28_CacheFailureHarmless ==
  \A c \in Chains :
    ( /\ chains[c].pc \in {"returned", "threw"}
      /\ idb # "ok"
      /\ chains[c].n0 = 0
      /\ ~proxy.corrupt )
      => chains[c].pc = "returned" /\ chains[c].result = "real"

\* C29: after the proxy has answered a call's request with HTTP 400,
\* fetchXAIAudio neither waits to retry nor sends another request for it.
C29_NoRetryAfter400 ==
  \A c \in Chains :
    chains[c].got = "400" => chains[c].pc \notin {"backoff", "fetch"}

(***************************************************************************)
(* playSilentWordPaced.                                                    *)
(***************************************************************************)
\* C30: a playSilentWordPaced over W words, once it has called onWord(0),
\* moves only by its own ticks: each but the last delivers the next index,
\* one higher, below W; the last comes after index W-1, completes the
\* call and clears the call's own interval, so that no timer stays armed.
C30_SilentPacing ==
  [][\A c \in Chains :
       (chains[c].pc = "silent" /\ chains'[c] # chains[c])
         => \/ /\ chains'[c].pc = "silent"
               /\ chains'[c].interval
               /\ chains'[c].idx = chains[c].idx + 1
               /\ chains'[c].idx < WordCount(chains[c].req.text)
            \/ /\ chains'[c].pc = "gap"
               /\ chains[c].idx = WordCount(chains[c].req.text) - 1
               /\ am.wordTimer = c
               /\ am'.wordTimer = 0
               /\ ~leaked']_vars

(***************************************************************************)
(* getMysteryForDate.                                                      *)
(***************************************************************************)
\* the schedule as stated (0 = Sunday)
StatedMystery(day) ==
  IF day \in {0, 3} THEN "glorious"
  ELSE IF day \in {1, 6} THEN "joyful"
  ELSE IF day \in {2, 5} THEN "sorrowful"
  ELSE "luminous"

\* C34: getMysteryForDate gives Sunday and Wednesday the glorious mysteries,
\* Monday and Saturday the joyful, Tuesday and Friday the sorrowful and
\* Thursday the luminous; the mystery a download announces on a given day
\* is the one of that schedule.
C34_WeekdaySchedule ==
  /\ today \in 0..6
  /\ getMysteryForDate(today) = StatedMystery(today)
  /\ \A c \in Chains :
       (chains[c].pc # "free" /\ chains[c].req.text[1] = "mystery.name")
         => chains[c].req.text[2] = StatedMystery(today)

\* C34 witness: on a Wednesday the download has reached the announcement of
\* a glorious mystery
C34_Witness ==
  /\ today = 3
  /\ \E c \in Chains :
       /\ chains[c].pc # "free"
       /\ chains[c].req.text[1] = "mystery.name"
       /\ chains[c].req.text[2] = "glorious"

(***************************************************************************)
(* pcm16ToWav.                                                             *)
(***************************************************************************)
\* C33: the container built from n bytes of PCM is 44 + n bytes long; its
\* header gives 36 + n as the RIFF size and n as the data size, and declares
\* PCM with 1 channel, 24000 Hz, 16 bits, byte rate 48000 and block align
\* 2; the n bytes follow the header unchanged and in order.
C33_WavContainer ==
  LET s == worker.session
  IN  (s # NoSession /\ s.promise = "resolved") =>
        LET n == totalLen(s.pcmChunks)
            h == s.wav.fields
        IN  /\ s.wavLen = 44 + n
            /\ s.wav.header = 44
            /\ h.riff = "RIFF" /\ h.wave = "WAVE" /\ h.fmt = "fmt " /\ h.dataTag = "data"
            /\ h.riffSize = 36 + n
            /\ h.dataSize = n
            /\ h.fmtSize = 16 /\ h.format = 1
            /\ h.channels = 1
            /\ h.sampleRate = 24000
            /\ h.bits = 16
            /\ h.byteRate = 48000
            /\ h.blockAlign = 2
            /\ Len(s.wav.data) = Len(s.pcmChunks)
            /\ \A i \in 1..Len(s.pcmChunks) :
                 /\ s.wav.data[i].chunk = s.pcmChunks[i]
                 /\ s.wav.data[i].at = totalLen(SubSeq(s.pcmChunks, 1, i - 1))

\* C33 witness: a container built from 600 bytes of PCM that came in two
\* chunks
C33_Witness ==
  LET s == worker.session
  IN  /\ s # NoSession
      /\ s.promise = "resolved"
      /\ Len(s.pcmChunks) = 2
      /\ totalLen(s.pcmChunks) = 600
      /\ s.wavLen = 644

(***************************************************************************)
(* The size thresholds of the proxy and of the client.                     *)
(***************************************************************************)
\* C39: every body the proxy answers with from a fresh synthesis has at
\* least the 500 bytes fetchXAIAudio asks for, and every entry the proxy
\* puts into its cache has more than the 500 bytes its own cache check asks
\* for.
C39_ThresholdsAgree ==
  /\ (worker.response.status = 200 /\ worker.response.provider = "xai-realtime")
       => worker.response.bytes >= MinBodyBytes
  /\ worker.put # NoPut => worker.put.bytes > MinCachedBytes
  /\ \A k \in KvKeys : kvStore[k] > 0 => kvStore[k] > MinCachedBytes

(***************************************************************************)
(* The range of the engine's position.                                     *)
(***************************************************************************)
\* C37: whatever methods have been called, jumpToStep with indices outside
\* the sequence included, currentStepIndex is an index of the sequence, and
\* the bead of the snapshot (of getState() now, and of the snapshot last
\* handed out) is -1 or one of the beads 0..60.
C37_PositionInRange ==
  /\ engine.currentStepIndex \in 0..(Len(engine.sequence) - 1)
  /\ getState(engine).currentBeadIndex \in -1..60
  /\ snapshot # NoSnapshot =>
       /\ snapshot.currentStepIndex \in 0..(snapshot.totalSteps - 1)
       /\ snapshot.currentBeadIndex \in -1..60

\* C37 witness: at the last step, with a listener subscribed, a jumpToStep
\* was called and notified nobody (its index was outside the sequence)
C37_Witness ==
  /\ lastOp = "jumpToStep"
  /\ engine.listeners # <<>>
  /\ emitted = <<>>
  /\ engine.currentStepIndex = LastIndex(engine)

(***************************************************************************)
(* storage-manager.ts: round trips.                                        *)
(***************************************************************************)
\* C31: a loadAudioCache(F) that follows at once a saveAudioCache that
\* stored an entry under F returns the audio that was saved; a
\* loadAudioCache(G) for a key G not passed to saveAudioCache since the
\* store was last cleared (or ever) returns no entry.
C31_AudioCacheRoundTrip ==
  [][storeOp'.op = "loadAudioCache" /\ storeOp' # storeOp =>
       /\ ( /\ storeOp.op = "saveAudioCache"
            /\ storeOp.at = "ok"
            /\ idb = "ok"
            /\ storeOp'.key = storeOp.key )
            => storeOp'.ret = storeOp.audio
       /\ storeOp'.key \notin written => storeOp'.ret = "none"]_vars

\* C31 witness: an entry has just been read back while the store holds
\* different audio under the other key
C31_Witness ==
  /\ storeOp.op = "loadAudioCache"
  /\ storeOp.ret = "corrupt"
  /\ written = StoreKeys
  /\ \E x \in audioCache : x.key # storeOp.key /\ x.audio = "good"

\* the three members of the preferences the round trip is about
SamePrefs(got, p) ==
  /\ {"language", "voiceDescription", "theme"} \subseteq DOMAIN got
  /\ got.language = p.language
  /\ got.voiceDescription = p.voiceDescription
  /\ got.theme = p.theme

\* C36: a loadPreferences() that follows savePreferences(p) returns p's
\* language, voiceDescription and theme, whether IndexedDB was available
\* or not at the save and whether it is available or not at the load.
C36_PreferencesRoundTrip ==
  [][( /\ storeOp'.op = "loadPreferences"
       /\ storeOp.op = "savePreferences"
       /\ storeOp.at \in {"ok", "unavailable"}
       /\ idb \in {"ok", "unavailable"} )
       => SamePrefs(storeOp'.got, storeOp.prefs)]_vars

(***************************************************************************)
(* downloadForOffline against playNextStep.                                *)
(***************************************************************************)
\* the request playNextStep builds at step i of today's rosary
PlayRequestAt(i) ==
  PlayRequest([NewEngine(getMysteryForDate(today)) EXCEPT !.currentStepIndex = i],
              currentLanguage, DefaultVoice)

\* C40: for every step downloadForOffline processes, the cache key and the
\* text it hands to generateAudio are the key and the text playNextStep
\* uses for that step with the same language and voice.
C40_DownloadFillsPlaybackKeys ==
  \A c \in Chains :
    (chains[c].mode = "download" /\ chains[c].pc # "free") =>
      LET q == PlayRequestAt(chains[c].dl)
      IN  /\ CacheKeyOf(c) = buildCacheKey(q.prayerKey, q.language, q.voiceDescription)
          /\ chains[c].req.text = q.text

(***************************************************************************)
(* The playback loop while the engine is paused.                           *)
(***************************************************************************)
\* C38: while engineState is paused, no playNextStep chain moves the
\* engine to another step (its engine.nextStep() after the gap) and none
\* starts the audio, or the silent pacing, of a step.
C38_PausedLoopHolds ==
  [][( /\ HasEngine(engine) /\ engine.engineState = "paused"
       /\ HasEngine(engine') /\ engine'.engineState = "paused" )
       => \A c \in Chains :
            /\ (chains[c].pc = "gap" /\ chains'[c].pc # "gap")
                 => engine'.currentStepIndex = engine.currentStepIndex
            /\ chains[c].pc \in GenPhases
                 => chains'[c].pc \notin {"audio", "silent"}]_vars

(***************************************************************************)
(* The playback loop left alone.                                           *)
(***************************************************************************)
\* C32: whenever generateAudio takes a request's audio from the client
\* cache, the entry was synthesized from the text of that request (its
\* language and voice are part of the key).
C32_CacheHitSameText ==
  \A c \in Chains :
    chains[c].pc = "decodeC" =>
      \A x \in audioCache : x.key = CacheKeyOf(c) => x.text = chains[c].req.text

\* the rosary has been played through
PlayedThrough ==
  /\ HasEngine(engine)
  /\ engine.engineState = "finished"
  /\ engine.currentStepIndex = LastIndex(engine)
  /\ ~isRunning
  /\ \A c \in Chains : chains[c].pc = "free"

\* C35: after startRosary() and with no user input, the step index moves
\* only from one step to the next, each time by the engine.nextStep() of
\* the chain whose playStep has completed, which then starts the playStep
\* of the new step and of no other; no two playSteps run at a time; and
\* the loop eventually ends at the last index with engineState finished,
\* isRunning false and no call left.
C35_LoopPlaysThrough ==
  /\ [][(HasEngine(engine) /\ HasEngine(engine')) =>
          /\ engine'.currentStepIndex \in
               {engine.currentStepIndex, engine.currentStepIndex + 1}
          /\ engine'.currentStepIndex # engine.currentStepIndex =>
               \E c \in Chains :
                 /\ chains[c].pc = "gap"
                 /\ chains'[c].pc = "cache"
                 /\ chains'[c].req = PlayRequest(engine', currentLanguage, DefaultVoice)
          /\ Cardinality({c \in Chains : chains'[c].pc # "free"}) <= 1
          /\ PlayedThrough => PlayedThrough']_vars
  /\ (HasEngine(engine) /\ ~PlayedThrough) ~> PlayedThrough

====
